---- MODULE Spec2Model ----
(***************************************************************************)
(* A model of the socket.io client core: one Manager (lib/manager.ts) that *)
(* owns an engine transport and runs the reconnection loop, and the        *)
(* namespace Sockets (lib/socket.ts) multiplexed on it.                    *)
(*                                                                         *)
(* The program is single threaded: every public call, engine event and     *)
(* timer callback runs to completion.  Each action below is one such call  *)
(* or callback, with every nested call it makes.  The handlers are written *)
(* as operators from a world record w = [m, s, e, out] to a world record:  *)
(*   m    the Manager's fields                                             *)
(*   s    the fields of the Socket of every namespace                      *)
(*   e    the engine held in Manager.engine and the server behind it:      *)
(*        st      "none" | "opening" | "open" | "closing" | "closed"       *)
(*        req     the namespaces whose CONNECT packet was written to it    *)
(*        oldreq  the same for the engine it replaced, while the manager   *)
(*                still listens to that engine                             *)
(*   out  what the running step has made observable, in order: packets     *)
(*        written to the engine, events delivered to user listeners,       *)
(*        callbacks invoked, exceptions thrown                             *)
(*   react  what a listener of the user will do during the step: the       *)
(*        event it listens to and the call of the library it makes when    *)
(*        that event is delivered (NoReaction when no listener calls the   *)
(*        library)                                                         *)
(***************************************************************************)
EXTENDS Integers, Sequences, FiniteSets, TLC

VARIABLES mgr, sock, eng, out, ghost

vars == <<mgr, sock, eng, out, ghost>>

(***************************************************************************)
(* Bounds of the model.                                                    *)
(***************************************************************************)
MaxBuf == 2        \* longest sendBuffer / receiveBuffer explored
MaxIds == 2        \* ack ids handed out per socket
MaxAttempts == 2   \* largest reconnectionAttempts configured
MaxFns == 2        \* ack functions of inbound events held per socket
MaxSid == 1        \* session ids the server assigns: 1..MaxSid

(***************************************************************************)
(* Values.                                                                 *)
(***************************************************************************)
Root == "/"
Nsps == {"/", "/a"}
NoId == -1
NoSid == 0
UserEvents == {"hi", "yo"}
RESERVED_EVENTS ==
    {"connect", "disconnect", "disconnecting", "error", "newListener", "removeListener"}
EmptyFlags == [x \in {} |-> TRUE]
Timeouts == {"false", "zero", "positive"}

(***************************************************************************)
(* Observations.  Every entry of out has the same shape:                   *)
(*   k    "write"  a packet written to the engine                          *)
(*        "emit"   an event delivered to the listeners of a socket         *)
(*        "mgr"    an event delivered to the listeners of the manager      *)
(*        "ack"    a pending ack callback invoked                          *)
(*        "throw"  an exception thrown to the caller                       *)
(*        "cb"     the callback given to Manager.open invoked              *)
(*        "call"   a call made: Socket.emit (ev "emit", t the event name,  *)
(*                 c whether the socket was connected),                    *)
(*                 Manager.open creating an engine (ev "open", t the kind  *)
(*                 of callback), Manager._close (ev "_close", t the        *)
(*                 readyState found), the reconnect delay timer (ev        *)
(*                 "timer"), Manager.reconnect scheduling that timer (ev   *)
(*                 "setTimeout", t the readyState at that moment)          *)
(*                 Socket.disconnect (ev "disconnect", t "connected" when  *)
(*                 the socket was connected)                               *)
(*                 Socket.connect (ev "connect")                           *)
(*                 Manager.open returning at once (ev "open_ignored", t    *)
(*                 the readyState found)                                   *)
(*                 Manager.socket (ev "socket")                            *)
(*                 a function made by Socket.ack (ev "ackfn", id its id)   *)
(*                 a listener of the user calling the library (ev          *)
(*                 "listener", t the call, nsp the socket called) and that *)
(*                 call returning (ev "listener_end")                      *)
(*                 an auth function called by Socket.onopen (ev "auth")    *)
(*                 and its callback called after it returned (ev "authcb") *)
(*        "recv"   a decoded packet emitted by the manager                 *)
(*   nsp  the socket concerned ("" for the manager)                        *)
(*   t    packet type of a write; reason of a disconnect / close           *)
(*   ev   event name                                                       *)
(*   id   ack id (NoId when absent); attempt number of manager events      *)
(*   c    options.compress of a write                                      *)
(*   sid  the socket's id field when the entry was produced                *)
(***************************************************************************)
Obs(k, nsp, t, ev, id, c, sid) ==
    [k |-> k, nsp |-> nsp, t |-> t, ev |-> ev, id |-> id, c |-> c, sid |-> sid]

Log(w, o) == [w EXCEPT !.out = Append(@, o)]

(***************************************************************************)
(* Listeners of the user.  The emitter (component-emitter) runs the        *)
(* listeners of an event inside emit, so a listener that calls the library *)
(* runs that call in the middle of the handler that emitted the event.     *)
(* A reaction r is one such listener: it listens to the event (r.k, r.nsp, *)
(* r.ev) and, the first time the event is delivered, makes the call r.f on *)
(* socket r.n (on the manager for "open" and "_close").  One listener per  *)
(* step calls the library; the others only observe.                        *)
(* r.pos is the listener's place among the listeners of the event: the     *)
(* emitter calls them in the order of their registration, and the sockets  *)
(* listen to the manager's "open" and "close" (Socket.subEvents), so a     *)
(* listener of one of these runs after the r.pos sockets that subscribed   *)
(* before it was registered and before the others.                         *)
(***************************************************************************)
NoReaction == [k |-> "", nsp |-> "", ev |-> "", f |-> "none", n |-> "", pos |-> 0]

Listens(r, o) == r.f # "none" /\ r.k = o.k /\ r.nsp = o.nsp /\ r.ev = o.ev

RECURSIVE Call(_, _)

(* The emitter calls the listener that calls the library. *)
React(w) ==
    LET w2 == Log([w EXCEPT !.react = NoReaction],
                  Obs("call", w.react.n, w.react.f, "listener", NoId, FALSE, NoSid))
        w3 == Call(w2, w.react)
    IN Log(w3, Obs("call", w.react.n, w.react.f, "listener_end", NoId, FALSE, NoSid))

(* An event or callback o that only the user listens to is delivered. *)
Notify(w, o) ==
    LET w1 == Log(w, o)
    IN IF Listens(w.react, o) THEN React(w1) ELSE w1

MgrObs(w, ev, t) == Obs("mgr", "", t, ev, w.m.attempts, FALSE, NoSid)

MgrEmit(w, ev, t) == Notify(w, MgrObs(w, ev, t))

SockEmit(w, n, ev, t, id) ==
    Notify(w, Obs("emit", n, t, ev, id, FALSE, w.s[n].id))

(***************************************************************************)
(* Socket: construction (socket.ts 44-71, before the autoConnect open).    *)
(* auth is the option of that name: "value" when it is absent or a value,  *)
(* "fn0", "fn1", "fn2" when it is a function that calls its callback 0, 1  *)
(* or 2 times before it returns.  authCb tells that such a function was    *)
(* given a callback, which it may also call later (action AuthCallback).   *)
(***************************************************************************)
AuthKinds == {"value", "fn0", "fn1", "fn2"}

SyncCalls(auth) == CASE auth = "fn1" -> 1 [] auth = "fn2" -> 2 [] OTHER -> 0

NewSocket(auth) ==
    [ connected     |-> FALSE,
      disconnected  |-> TRUE,
      id            |-> NoSid,
      ids           |-> 0,
      acks          |-> {},
      receiveBuffer |-> << >>,
      sendBuffer    |-> << >>,
      flags         |-> EmptyFlags,
      ackFns        |-> << >>,
      subs          |-> FALSE,
      auth          |-> auth,
      authCb        |-> FALSE ]

(***************************************************************************)
(* Manager.cleanup (manager.ts 636-646): every subscription of subs is     *)
(* released, timers included.                                              *)
(***************************************************************************)
cleanup(w) == [w EXCEPT !.m.subs = {}]

(***************************************************************************)
(* Manager._packet (manager.ts 621-629): the packet is encoded and written *)
(* to the current engine.                                                  *)
(***************************************************************************)
_packet(w, n, t, ev, id, c) ==
    LET w1 == Log(w, Obs("write", n, t, ev, id, c, w.s[n].id))
    IN [w1 EXCEPT !.e.req = IF w.e.st # "open" THEN @
                            ELSE IF t = "CONNECT" THEN @ \cup {n}
                            ELSE IF t = "DISCONNECT" THEN @ \ {n}
                            ELSE @]

(* Socket.packet (socket.ts 170-173) *)
packet(w, n, p) == _packet(w, n, p.type, p.ev, p.id, p.compress)

(* onopen that writes nothing *)
Socket_onopen_silent(w, n) == w

(* The callback Socket.onopen gives to an auth function (socket.ts 183-185) *)
authCallback(w, n) == _packet(w, n, "CONNECT", "auth", NoId, FALSE)

RECURSIVE CallBack(_, _, _)
CallBack(w, n, times) ==
    IF times = 0 THEN w ELSE CallBack(authCallback(w, n), n, times - 1)

(***************************************************************************)
(* Socket.onopen (socket.ts 180-189): the CONNECT packet carries auth.  An *)
(* auth function is called with a callback that writes the packet.         *)
(***************************************************************************)
Socket_onopen(w, n) ==
    IF w.s[n].auth = "value"
    THEN _packet(w, n, "CONNECT", "auth", NoId, FALSE)
    ELSE LET w1 == Log(w, Obs("call", n, "", "auth", NoId, FALSE, w.s[n].id))
             w2 == [w1 EXCEPT !.s[n].authCb = TRUE]
         IN CallBack(w2, n, SyncCalls(w.s[n].auth))

(* Socket.onclose that forgets to set disconnected. *)
Socket_onclose_keepsFlag(w, n, reason) ==
    LET w1 == [w EXCEPT !.s[n].connected = FALSE, !.s[n].id = NoSid]
    IN SockEmit(w1, n, "disconnect", reason, NoId)

(* Socket.onclose (socket.ts 197-203) *)
Socket_onclose(w, n, reason) ==
    LET w1 == [w EXCEPT !.s[n].connected = FALSE,
                        !.s[n].disconnected = TRUE,
                        !.s[n].id = NoSid]
    IN SockEmit(w1, n, "disconnect", reason, NoId)

(***************************************************************************)
(* The Manager emits "open" / "close" (manager.ts 524, 687) to its          *)
(* listeners in the order of their registration: the sockets subscribed to *)
(* it (Socket.subEvents, socket.ts 78-87) and the listener of the user,    *)
(* which runs when done = w.react.pos sockets have been called.  order     *)
(* holds the sockets that were subscribed when the emit began and are      *)
(* still to be called: the emitter calls a copy of its list of listeners,  *)
(* so a socket detached during the emit is still called.                   *)
(***************************************************************************)
Turn(w, o, order, done) ==
    IF Listens(w.react, o) /\ (w.react.pos <= done \/ order = << >>) THEN React(w) ELSE w

RECURSIVE EmitOpenTo(_, _, _, _)
EmitOpenTo(w, o, order, done) ==
    LET w1 == Turn(w, o, order, done)
    IN IF order = << >> THEN w1
       ELSE EmitOpenTo(Socket_onopen(w1, Head(order)), o, Tail(order), done + 1)

RECURSIVE EmitCloseTo(_, _, _, _, _)
EmitCloseTo(w, o, order, done, reason) ==
    LET w1 == Turn(w, o, order, done)
    IN IF order = << >> THEN w1
       ELSE EmitCloseTo(Socket_onclose(w1, Head(order), reason), o, Tail(order), done + 1,
                        reason)

(* open that ignores the readyState and creates an engine *)
Manager_open_always(w, fn) ==
    LET w1 == Log(w, Obs("call", "", fn, "open", NoId, FALSE, NoSid))
    IN [w1 EXCEPT !.e = [st |-> "opening", req |-> {}, oldreq |-> w.e.req],
                  !.m.readyState = "opening",
                  !.m.skipReconnect = FALSE,
                  !.m.subs = {IF x.k = "runtime" THEN [x EXCEPT !.e = "old"] ELSE x : x \in @}
                             \cup {[k |-> "error", e |-> "cur", fn |-> fn],
                                   [k |-> "open", e |-> "cur", fn |-> fn]}]

(***************************************************************************)
(* Manager.open (manager.ts 439-499).  fn is "none" (no callback), "user"  *)
(* (a callback given by the caller) or "reconnect" (the callback of the    *)
(* reconnect loop, manager.ts 724-734).  A new engine replaces the one in  *)
(* Manager.engine; subscriptions on the replaced engine stay in subs.      *)
(***************************************************************************)
Retag(subs) ==
    {IF x.k = "runtime" THEN [x EXCEPT !.e = "old"] ELSE x : x \in subs}

OpenSubs(timeout, fn) ==
    (IF timeout = "zero" THEN {} ELSE {[k |-> "open", e |-> "cur", fn |-> fn]})
    \cup {[k |-> "error", e |-> "cur", fn |-> fn]}
    \cup (IF timeout = "false" THEN {} ELSE {[k |-> "timeout", e |-> "cur", fn |-> fn]})

Manager_open(w, fn) ==
    IF w.m.readyState \in {"opening", "open"}
    THEN Log(w, Obs("call", "", w.m.readyState, "open_ignored", NoId, FALSE, NoSid))
    ELSE LET w1 == Log(w, Obs("call", "", fn, "open", NoId, FALSE, NoSid))
         IN [w1 EXCEPT !.e = [st |-> "opening", req |-> {}, oldreq |-> w.e.req],
                       !.m.readyState = "opening",
                       !.m.skipReconnect = FALSE,
                       !.m.subs = Retag(@) \cup OpenSubs(w.m.timeout, fn)]

(***************************************************************************)
(* Manager.reconnect (manager.ts 699-743), up to the scheduling of the     *)
(* delay timer; the timer's callback is the action ReconnectTimer.         *)
(* backoff.duration() increments backoff.attempts.                         *)
(***************************************************************************)
reconnect(w) ==
    IF w.m.reconnecting \/ w.m.skipReconnect THEN w
    ELSE IF w.m.attempts >= w.m.reconnectionAttempts
         THEN LET w1 == [w EXCEPT !.m.attempts = 0]
                  w2 == MgrEmit(w1, "reconnect_failed", "")
              IN [w2 EXCEPT !.m.reconnecting = FALSE]
         ELSE LET w1 == Log(w, Obs("call", "", w.m.readyState, "setTimeout",
                                   w.m.attempts + 1, FALSE, NoSid))
              IN [w1 EXCEPT !.m.attempts = @ + 1,
                            !.m.reconnecting = TRUE,
                            !.m.subs = @ \cup {[k |-> "rtimer", e |-> "", fn |-> ""]}]

(* Manager.maybeReconnectOnOpen (manager.ts 420-430) *)
maybeReconnectOnOpen(w) ==
    IF ~w.m.reconnecting /\ w.m.reconnection /\ w.m.attempts = 0
    THEN reconnect(w)
    ELSE w

(* Manager.onreconnect (manager.ts 750-755) *)
onreconnect(w) ==
    LET attempt == w.m.attempts
        w1 == [w EXCEPT !.m.reconnecting = FALSE, !.m.attempts = 0]
    IN Notify(w1, Obs("mgr", "", "", "reconnect", attempt, FALSE, NoSid))

(***************************************************************************)
(* The callback given to open(): absent, the user's, or the reconnect      *)
(* loop's (manager.ts 724-734).                                            *)
(***************************************************************************)
CallFn(w, fn, err) ==
    CASE fn = "user" ->
            Notify(w, Obs("cb", "", "", IF err THEN "err" ELSE "ok", NoId, FALSE, NoSid))
      [] fn = "reconnect" ->
            IF err
            THEN LET w0 == Log(w, Obs("cb", "", "", "reconnect_err", NoId, FALSE, NoSid))
                     w1 == [w0 EXCEPT !.m.reconnecting = FALSE]
                     w2 == reconnect(w1)
                 IN MgrEmit(w2, "reconnect_error", "")
            ELSE onreconnect(w)
      [] OTHER -> w

(* Manager.onopen (manager.ts 516-533) *)
Manager_onopen(w) ==
    LET w1 == cleanup(w)
        w2 == [w1 EXCEPT !.m.readyState = "open"]
        o == MgrObs(w2, "open", "")
        w4 == EmitOpenTo(Log(w2, o), o, w2.m.listeners, 0)
    IN [w4 EXCEPT !.m.subs = @ \cup {[k |-> "runtime", e |-> "cur", fn |-> ""]}]

(* openSub of Manager.open (manager.ts 451-454) *)
openSub(w, fn) == CallFn(Manager_onopen(w), fn, FALSE)

(* errorSub that goes on to maybeReconnectOnOpen after the callback *)
errorSub_alwaysReconnects(w, fn, err) ==
    LET w1 == cleanup(w)
        w2 == [w1 EXCEPT !.m.readyState = "closed"]
        w3 == MgrEmit(w2, "connect_error", err)
    IN maybeReconnectOnOpen(CallFn(w3, fn, TRUE))

(* errorSub of Manager.open (manager.ts 457-468) *)
errorSub(w, fn, err) ==
    LET w1 == cleanup(w)
        w2 == [w1 EXCEPT !.m.readyState = "closed"]
        w3 == MgrEmit(w2, "connect_error", err)
    IN IF fn = "none" THEN maybeReconnectOnOpen(w3) ELSE CallFn(w3, fn, TRUE)

(* the timer without the injected engine error *)
timeoutTimer_noError(w, fn) ==
    LET w1 == [w EXCEPT !.m.subs = {x \in @ : x.k # "open"}, !.e.st = "closed"]
    IN MgrEmit(w1, "connect_error", "timeout")

(***************************************************************************)
(* The connect-timeout timer of Manager.open (manager.ts 480-486): the     *)
(* engine is closed and made to emit "error", which errorSub hears.        *)
(***************************************************************************)
timeoutTimer(w, fn) ==
    LET w1 == [w EXCEPT !.m.subs = {x \in @ : x.k # "open"}, !.e.st = "closed"]
        w2 == IF \E x \in w1.m.subs : x.k = "error"
              THEN errorSub(w1, fn, "timeout") ELSE w1
    IN MgrEmit(w2, "connect_error", "timeout")

(* Manager.onclose (manager.ts 681-692) *)
Manager_onclose(w, reason) ==
    LET w1 == cleanup(w)
        w2 == [w1 EXCEPT !.m.attempts = 0, !.m.readyState = "closed"]
        o == MgrObs(w2, "close", reason)
        w4 == EmitCloseTo(Log(w2, o), o, w2.m.listeners, 0, reason)
    IN IF w4.m.reconnection /\ ~w4.m.skipReconnect THEN reconnect(w4) ELSE w4

(***************************************************************************)
(* engine.close() as Manager._close calls it: an engine that was open      *)
(* emits its "close" event later, when its write buffer has drained; an    *)
(* engine that was still opening has no "close" listener of the manager.   *)
(***************************************************************************)
EngineCloseCall(e) ==
    CASE e = "open" -> "closing"
      [] e = "opening" -> "closed"
      [] OTHER -> e

(* _close without the cleanup of an attempt that is still opening *)
_close_keepsSubs(w) ==
    LET w0 == Log(w, Obs("call", "", w.m.readyState, "_close", NoId, FALSE, NoSid))
        w1 == [w0 EXCEPT !.m.skipReconnect = TRUE, !.m.reconnecting = FALSE]
    IN [w1 EXCEPT !.m.attempts = 0,
                  !.m.readyState = "closed",
                  !.e.st = EngineCloseCall(@)]

(* Manager._close (manager.ts 653-665); the entry logged carries the       *)
(* readyState found by the call.                                           *)
_close(w) ==
    LET w0 == Log(w, Obs("call", "", w.m.readyState, "_close", NoId, FALSE, NoSid))
        w1 == [w0 EXCEPT !.m.skipReconnect = TRUE, !.m.reconnecting = FALSE]
        w2 == IF w1.m.readyState = "opening" THEN cleanup(w1) ELSE w1
    IN [w2 EXCEPT !.m.attempts = 0,
                  !.m.readyState = "closed",
                  !.e.st = EngineCloseCall(@)]

(* Manager._destroy (manager.ts 607-613) *)
_destroy(w, n) ==
    LET w1 == [w EXCEPT !.m.connecting = @ \ {n}]
    IN IF w1.m.connecting # {} THEN w1 ELSE _close(w1)

(***************************************************************************)
(* Socket.subEvents (socket.ts 78-87): the socket's listeners are added    *)
(* after those the manager already has, so the manager's events reach the  *)
(* sockets in the order in which they subscribed.                          *)
(***************************************************************************)
subEvents(w, n) ==
    IF w.s[n].subs THEN w
    ELSE [w EXCEPT !.s[n].subs = TRUE, !.m.listeners = Append(@, n)]

(***************************************************************************)
(* Socket.connect / Socket.open (socket.ts 94-108).                        *)
(***************************************************************************)
Socket_connect(w0, n) ==
    LET w == Log(w0, Obs("call", n, "", "connect", NoId, FALSE, w0.s[n].id))
    IN
    IF w.s[n].connected THEN w
    ELSE LET w1 == subEvents(w, n)
             w2 == IF ~w1.m.reconnecting THEN Manager_open(w1, "none") ELSE w1
         IN IF w2.m.readyState = "open" THEN Socket_onopen(w2, n) ELSE w2

(***************************************************************************)
(* Socket.emit (socket.ts 130-162).  hasBin is has-binary2 on the          *)
(* arguments, hasAck tells whether the last argument is a function.        *)
(***************************************************************************)
PacketType(flags, hasBin) ==
    IF (IF "binary" \in DOMAIN flags THEN flags["binary"] ELSE hasBin)
    THEN "BINARY_EVENT" ELSE "EVENT"

Compress(flags) == ~("compress" \in DOMAIN flags /\ flags["compress"] = FALSE)

(* emit without the test of the reserved names *)
Socket_emit_noReservedTest(w0, n, ev, hasBin, hasAck) ==
    LET w  == Log(w0, Obs("call", n, ev, "emit", NoId, w0.s[n].connected, w0.s[n].id))
        so == w.s[n]
        p  == [type     |-> PacketType(so.flags, hasBin),
               ev       |-> ev,
               id       |-> IF hasAck THEN so.ids ELSE NoId,
               compress |-> Compress(so.flags)]
        w1 == IF hasAck
              THEN [w EXCEPT !.s[n].acks = @ \cup {so.ids}, !.s[n].ids = @ + 1]
              ELSE w
        w2 == IF w1.s[n].connected
              THEN packet(w1, n, p)
              ELSE [w1 EXCEPT !.s[n].sendBuffer = Append(@, p)]
    IN [w2 EXCEPT !.s[n].flags = EmptyFlags]

(* emit without the increment of ids *)
Socket_emit_reusesId(w0, n, ev, hasBin, hasAck) ==
    LET w == Log(w0, Obs("call", n, ev, "emit", NoId, w0.s[n].connected, w0.s[n].id))
    IN
    IF ev \in RESERVED_EVENTS
    THEN Log(w, Obs("throw", n, "", ev, NoId, FALSE, w.s[n].id))
    ELSE LET so == w.s[n]
             p  == [type     |-> PacketType(so.flags, hasBin),
                    ev       |-> ev,
                    id       |-> IF hasAck THEN so.ids ELSE NoId,
                    compress |-> Compress(so.flags)]
             w1 == IF hasAck
                   THEN [w EXCEPT !.s[n].acks = @ \cup {so.ids}]
                   ELSE w
             w2 == IF w1.s[n].connected
                   THEN packet(w1, n, p)
                   ELSE [w1 EXCEPT !.s[n].sendBuffer = Append(@, p)]
         IN [w2 EXCEPT !.s[n].flags = EmptyFlags]

Socket_emit(w0, n, ev, hasBin, hasAck) ==
    LET w == Log(w0, Obs("call", n, ev, "emit", NoId, w0.s[n].connected, w0.s[n].id))
    IN
    IF ev \in RESERVED_EVENTS
    THEN Log(w, Obs("throw", n, "", ev, NoId, FALSE, w.s[n].id))
    ELSE LET so == w.s[n]
             p  == [type     |-> PacketType(so.flags, hasBin),
                    ev       |-> ev,
                    id       |-> IF hasAck THEN so.ids ELSE NoId,
                    compress |-> Compress(so.flags)]
             w1 == IF hasAck
                   THEN [w EXCEPT !.s[n].acks = @ \cup {so.ids}, !.s[n].ids = @ + 1]
                   ELSE w
             w2 == IF w1.s[n].connected
                   THEN packet(w1, n, p)
                   ELSE [w1 EXCEPT !.s[n].sendBuffer = Append(@, p)]
         IN [w2 EXCEPT !.s[n].flags = EmptyFlags]

(* Socket.compress (socket.ts 410-413), Socket.binary (socket.ts 422-425) *)
SetFlag(flags, key, b) ==
    [x \in DOMAIN flags \cup {key} |-> IF x = key THEN b ELSE flags[x]]

Socket_compress(w, n, b) == [w EXCEPT !.s[n].flags = SetFlag(@, "compress", b)]

Socket_binary(w, n, b) == [w EXCEPT !.s[n].flags = SetFlag(@, "binary", b)]

(* Socket.destroy (socket.ts 359-369) *)
destroy(w, n) ==
    _destroy([w EXCEPT !.s[n].subs = FALSE,
                       !.m.listeners = SelectSeq(@, LAMBDA x : x # n)], n)

(* disconnect without the call of destroy *)
Socket_disconnect_noDestroy(w, n) ==
    LET w0 == Log(w, Obs("call", n, IF w.s[n].connected THEN "connected" ELSE "",
                         "disconnect", NoId, FALSE, w.s[n].id))
        w1 == IF w0.s[n].connected
              THEN _packet(w0, n, "DISCONNECT", "", NoId, FALSE) ELSE w0
    IN IF w1.s[n].connected THEN Socket_onclose(w1, n, "io client disconnect") ELSE w1

(* Socket.disconnect / Socket.close (socket.ts 377-401) *)
Socket_disconnect(w, n) ==
    LET w0 == Log(w, Obs("call", n, IF w.s[n].connected THEN "connected" ELSE "",
                         "disconnect", NoId, FALSE, w.s[n].id))
        w1 == IF w0.s[n].connected
              THEN _packet(w0, n, "DISCONNECT", "", NoId, FALSE) ELSE w0
        w2 == destroy(w1, n)
    IN IF w2.s[n].connected THEN Socket_onclose(w2, n, "io client disconnect") ELSE w2

(***************************************************************************)
(* The call of the library a listener makes: Socket.disconnect,            *)
(* Socket.connect, Socket.emit of an event "hi" without arguments,         *)
(* Manager.open without callback, Manager._close.                          *)
(***************************************************************************)
Call(w, r) ==
    CASE r.f = "disconnect" -> Socket_disconnect(w, r.n)
      [] r.f = "connect" -> Socket_connect(w, r.n)
      [] r.f = "emit" -> Socket_emit(w, r.n, "hi", FALSE, FALSE)
      [] r.f = "open" -> Manager_open(w, "none")
      [] r.f = "_close" -> _close(w)
      [] OTHER -> w

(* ondisconnect without the call of destroy *)
ondisconnect_staysAttached(w, n) == Socket_onclose(w, n, "io server disconnect")

(* Socket.ondisconnect (socket.ts 346-350) *)
ondisconnect(w, n) == Socket_onclose(destroy(w, n), n, "io server disconnect")

(***************************************************************************)
(* Socket.emitBuffered (socket.ts 329-339)                                 *)
(***************************************************************************)
RECURSIVE DeliverAll(_, _, _)
DeliverAll(w, n, buf) ==
    IF buf = << >> THEN w
    ELSE DeliverAll(SockEmit(w, n, Head(buf).ev, "", Head(buf).id), n, Tail(buf))

RECURSIVE PacketAll(_, _, _)
PacketAll(w, n, buf) ==
    IF buf = << >> THEN w
    ELSE PacketAll(packet(w, n, Head(buf)), n, Tail(buf))

(* emitBuffered without the reset of sendBuffer *)
emitBuffered_keepsSendBuffer(w, n) ==
    LET w1 == DeliverAll(w, n, w.s[n].receiveBuffer)
        w2 == [w1 EXCEPT !.s[n].receiveBuffer = << >>]
    IN PacketAll(w2, n, w2.s[n].sendBuffer)

emitBuffered(w, n) ==
    LET w1 == DeliverAll(w, n, w.s[n].receiveBuffer)
        w2 == [w1 EXCEPT !.s[n].receiveBuffer = << >>]
        w3 == PacketAll(w2, n, w2.s[n].sendBuffer)
    IN [w3 EXCEPT !.s[n].sendBuffer = << >>]

(* Socket.onconnect (socket.ts 316-322) *)
onconnect(w, n, id) ==
    LET w1 == [w EXCEPT !.s[n].id = id,
                        !.s[n].connected = TRUE,
                        !.s[n].disconnected = FALSE]
        w2 == SockEmit(w1, n, "connect", "", NoId)
    IN emitBuffered(w2, n)

(***************************************************************************)
(* Socket.ack (socket.ts 277-292): a function with its own sent flag is    *)
(* made for the packet.  ackFns holds the functions made so far, in order; *)
(* those of events still in receiveBuffer have not reached a handler yet.  *)
(***************************************************************************)
Socket_ack(w, n, id) ==
    [w EXCEPT !.s[n].ackFns = Append(@, [id |-> id, sent |-> FALSE])]

(* onevent firing the event whether connected or not *)
onevent_neverBuffers(w, n, p) == SockEmit(w, n, p.ev, "", p.id)

(***************************************************************************)
(* Socket.onevent (socket.ts 256-270).  The arguments are the event name   *)
(* and, when the packet has an id, the ack function for that id.           *)
(***************************************************************************)
onevent(w0, n, p) ==
    LET w == IF p.id # NoId THEN Socket_ack(w0, n, p.id) ELSE w0
    IN IF w.s[n].connected
       THEN SockEmit(w, n, p.ev, "", p.id)
       ELSE [w EXCEPT !.s[n].receiveBuffer = Append(@, [ev |-> p.ev, id |-> p.id])]

(***************************************************************************)
(* The function returned by Socket.ack (socket.ts 280-291), called by the  *)
(* user's handler: i is its position in ackFns, hasBin is has-binary2 on   *)
(* the arguments of the call.                                              *)
(***************************************************************************)
(* the function without its sent flag test *)
ackFn_noGuard(w0, n, i, hasBin) ==
    LET w  == Log(w0, Obs("call", n, "", "ackfn", w0.s[n].ackFns[i].id, FALSE, w0.s[n].id))
        w1 == [w EXCEPT !.s[n].ackFns[i].sent = TRUE]
    IN _packet(w1, n, IF hasBin THEN "BINARY_ACK" ELSE "ACK", "",
               w.s[n].ackFns[i].id, FALSE)

ackFn(w0, n, i, hasBin) ==
    LET w == Log(w0, Obs("call", n, "", "ackfn", w0.s[n].ackFns[i].id, FALSE, w0.s[n].id))
    IN IF w.s[n].ackFns[i].sent THEN w
       ELSE LET w1 == [w EXCEPT !.s[n].ackFns[i].sent = TRUE]
            IN _packet(w1, n, IF hasBin THEN "BINARY_ACK" ELSE "ACK", "",
                       w.s[n].ackFns[i].id, FALSE)

(* onack without the removal of the entry *)
onack_keepsEntry(w, n, p) ==
    IF p.id \in w.s[n].acks
    THEN Notify(w, Obs("ack", n, "", "", p.id, FALSE, w.s[n].id))
    ELSE w

(* Socket.onack (socket.ts 300-309) *)
onack(w, n, p) ==
    IF p.id \in w.s[n].acks
    THEN LET w1 == Notify(w, Obs("ack", n, "", "", p.id, FALSE, w.s[n].id))
         IN [w1 EXCEPT !.s[n].acks = @ \ {p.id}]
    ELSE w

(* onpacket without the test of the namespace *)
onpacket_anyNamespace(w, n, p) ==
    CASE p.type = "CONNECT" -> onconnect(w, n, p.sid)
      [] p.type \in {"EVENT", "BINARY_EVENT"} -> onevent(w, n, p)
      [] p.type \in {"ACK", "BINARY_ACK"} -> onack(w, n, p)
      [] p.type = "DISCONNECT" -> ondisconnect(w, n)
      [] p.type = "ERROR" -> SockEmit(w, n, "error", "", NoId)
      [] OTHER -> w

(***************************************************************************)
(* Socket.onpacket (socket.ts 211-248).  A packet is                       *)
(* [type, nsp, ev, id, sid].                                               *)
(***************************************************************************)
onpacket(w, n, p) ==
    LET sameNamespace == p.nsp = n
        rootNamespaceError == p.type = "ERROR" /\ p.nsp = Root
    IN IF ~sameNamespace /\ ~rootNamespaceError THEN w
       ELSE CASE p.type = "CONNECT" -> onconnect(w, n, p.sid)
              [] p.type \in {"EVENT", "BINARY_EVENT"} -> onevent(w, n, p)
              [] p.type \in {"ACK", "BINARY_ACK"} -> onack(w, n, p)
              [] p.type = "DISCONNECT" -> ondisconnect(w, n)
              [] p.type = "ERROR" -> SockEmit(w, n, "error", "", NoId)
              [] OTHER -> w

(***************************************************************************)
(* Manager.ondata / ondecoded (manager.ts 549-560): the decoded packet is  *)
(* emitted as the manager's "packet" to its listeners in the order of      *)
(* their registration: every socket that was subscribed when the emit      *)
(* began, and the listener of the user at its place among them.            *)
(***************************************************************************)
RECURSIVE EmitPacketTo(_, _, _, _, _)
EmitPacketTo(w, o, order, done, p) ==
    LET w1 == Turn(w, o, order, done)
    IN IF order = << >> THEN w1
       ELSE EmitPacketTo(onpacket(w1, Head(order), p), o, Tail(order), done + 1, p)

ondecoded(w, p) ==
    LET w1 == Log(w, Obs("recv", p.nsp, p.type, p.ev, p.id, FALSE, p.sid))
    IN EmitPacketTo(w1, MgrObs(w, "packet", ""), w.m.listeners, 0, p)

(* socket() that creates a Socket whether or not nsps holds one *)
Manager_socket_alwaysNew(w0, n, auth) ==
    LET w  == Log(w0, Obs("call", n, "", "socket", NoId, FALSE, w0.s[n].id))
        w1 == [w EXCEPT !.s[n] = NewSocket(auth)]
        w2 == IF w1.m.autoConnect THEN Socket_connect(w1, n) ELSE w1
        w3 == [w2 EXCEPT !.m.nsps = @ \cup {n}]
    IN IF w3.m.autoConnect
       THEN [w3 EXCEPT !.m.connecting = @ \cup {n}]
       ELSE w3

(***************************************************************************)
(* Manager.socket (manager.ts 578-599) with the Socket constructor         *)
(* (socket.ts 56-71).  No code of the socket emits "connecting", so        *)
(* onConnecting runs only through the autoConnect call at creation.        *)
(***************************************************************************)
Manager_socket(w0, n, auth) ==
    LET w == Log(w0, Obs("call", n, "", "socket", NoId, FALSE, w0.s[n].id))
    IN
    IF n \in w.m.nsps THEN w
    ELSE LET w1 == [w EXCEPT !.s[n] = NewSocket(auth)]
             w2 == IF w1.m.autoConnect THEN Socket_connect(w1, n) ELSE w1
             w3 == [w2 EXCEPT !.m.nsps = @ \cup {n}]
         IN IF w3.m.autoConnect
            THEN [w3 EXCEPT !.m.connecting = @ \cup {n}]
            ELSE w3

(* The timer callback without its first skipReconnect test. *)
reconnectTimer_noSkipTest(w) ==
    LET wt == Log(w, Obs("call", "", "", "timer", NoId, FALSE, NoSid))
        w0 == [wt EXCEPT !.m.subs = {x \in @ : x.k # "rtimer"}]
        w1 == MgrEmit(w0, "reconnect_attempt", "")
        w2 == MgrEmit(w1, "reconnecting", "")
    IN IF w2.m.skipReconnect THEN w2
       ELSE Manager_open(w2, "reconnect")

(***************************************************************************)
(* The callback of the reconnect delay timer (manager.ts 714-735).  A      *)
(* listener of reconnect_attempt or of reconnecting may close the manager: *)
(* skipReconnect is tested again after the two emits.                      *)
(***************************************************************************)
reconnectTimer(w) ==
    LET wt == Log(w, Obs("call", "", "", "timer", NoId, FALSE, NoSid))
        w0 == [wt EXCEPT !.m.subs = {x \in @ : x.k # "rtimer"}]
    IN IF w0.m.skipReconnect THEN w0
       ELSE LET w1 == MgrEmit(w0, "reconnect_attempt", "")
                w2 == MgrEmit(w1, "reconnecting", "")
            IN IF w2.m.skipReconnect THEN w2
               ELSE Manager_open(w2, "reconnect")

(* The setters Manager.reconnection (manager.ts 329-335),                  *)
(* Manager.reconnectionAttempts (344-350) and Manager.timeout (406-412).   *)
Manager_reconnection(w, v) == [w EXCEPT !.m.reconnection = v]

Manager_reconnectionAttempts(w, v) == [w EXCEPT !.m.reconnectionAttempts = v]

Manager_timeout(w, v) == [w EXCEPT !.m.timeout = v]

(* Manager.onerror (manager.ts 567-570) *)
Manager_onerror(w) == MgrEmit(w, "error", "")

(***************************************************************************)
(* Manager construction (manager.ts 292-320): the fields before the        *)
(* autoConnect open().                                                     *)
(***************************************************************************)
NewManager(autoConnect, reconnection, attempts, timeout) ==
    [ readyState           |-> "closed",
      reconnecting         |-> FALSE,
      skipReconnect        |-> FALSE,
      attempts             |-> 0,
      nsps                 |-> {},
      connecting           |-> {},
      subs                 |-> {},
      listeners            |-> << >>,
      autoConnect          |-> autoConnect,
      reconnection         |-> reconnection,
      reconnectionAttempts |-> attempts,
      timeout              |-> timeout ]

Constructed(autoConnect, reconnection, attempts, timeout) ==
    LET w == [m   |-> NewManager(autoConnect, reconnection, attempts, timeout),
              s   |-> [n \in Nsps |-> NewSocket("value")],
              e   |-> [st |-> "none", req |-> {}, oldreq |-> {}],
              out |-> << >>,
              react |-> NoReaction]
    IN IF autoConnect THEN Manager_open(w, "none") ELSE w

(***************************************************************************)
(* History variables (ghost): they record what the claims speak about and  *)
(* are read by no handler.                                                 *)
(*   closed       the manager was explicitly closed and open() has not     *)
(*                created an engine since                                  *)
(*   afterFailed  reconnect_failed was emitted and no open() without the   *)
(*                reconnect loop's callback has succeeded since            *)
(*   abandoned    _close() found the manager opening and open() has        *)
(*                created no engine since                                  *)
(*   failed       reconnect_failed was emitted at some time                *)
(*   fails        failed attempts of the running reconnection loop         *)
(*   oldAcks      per socket, the ack ids whose packet was written before  *)
(*                the socket's last disconnect                             *)
(*   mods         per socket, the modifiers set since the last emit call   *)
(***************************************************************************)
NewGhost ==
    [ closed      |-> FALSE,
      abandoned   |-> FALSE,
      afterFailed |-> FALSE,
      failed      |-> FALSE,
      fails       |-> 0,
      oldAcks     |-> [n \in Nsps |-> {}],
      mods        |-> [n \in Nsps |-> EmptyFlags] ]

RECURSIVE ClosedAfter(_, _)
ClosedAfter(c, o) ==
    IF o = << >> THEN c
    ELSE LET x == Head(o)
         IN ClosedAfter(IF x.k = "call" /\ x.ev = "_close" THEN TRUE
                        ELSE IF x.k = "call" /\ x.ev = "open" THEN FALSE
                        ELSE c, Tail(o))

RECURSIVE AbandonedAfter(_, _)
AbandonedAfter(c, o) ==
    IF o = << >> THEN c
    ELSE LET x == Head(o)
         IN AbandonedAfter(IF x.k = "call" /\ x.ev = "_close" /\ x.t = "opening" THEN TRUE
                           ELSE IF x.k = "call" /\ x.ev = "open" THEN FALSE
                           ELSE c, Tail(o))

Has(o, k, ev) == \E i \in 1..Len(o) : o[i].k = k /\ o[i].ev = ev

Count(o, k, ev) == Cardinality({i \in 1..Len(o) : o[i].k = k /\ o[i].ev = ev})

SentAcks(so) == so.acks \ {so.sendBuffer[i].id : i \in 1..Len(so.sendBuffer)}

World == [m |-> mgr, s |-> sock, e |-> eng, out |-> << >>, react |-> NoReaction]

(* The world of a step in which the listener r calls the library. *)
WorldWith(r) == [World EXCEPT !.react = r]

Disconnected(w, n) ==
    \E i \in 1..Len(w.out) :
        w.out[i].k = "emit" /\ w.out[i].ev = "disconnect" /\ w.out[i].nsp = n

GhostAfter(w, mods) ==
    [ closed      |-> ClosedAfter(ghost.closed, w.out),
      abandoned   |-> AbandonedAfter(ghost.abandoned, w.out),
      afterFailed |-> IF Has(w.out, "mgr", "reconnect_failed") THEN TRUE
                      ELSE IF Has(w.out, "cb", "ok") \/
                              (Has(w.out, "mgr", "open") /\ ~Has(w.out, "mgr", "reconnect"))
                           THEN FALSE
                           ELSE ghost.afterFailed,
      failed      |-> ghost.failed \/ Has(w.out, "mgr", "reconnect_failed"),
      fails       |-> (IF mgr.reconnecting THEN ghost.fails ELSE 0)
                      + Count(w.out, "cb", "reconnect_err"),
      oldAcks     |-> [n \in Nsps |->
                          IF Disconnected(w, n)
                          THEN (ghost.oldAcks[n] \cup SentAcks(sock[n])) \cap w.s[n].acks
                          ELSE ghost.oldAcks[n] \cap w.s[n].acks],
      mods        |-> [n \in Nsps |->
                          IF \E i \in 1..Len(w.out) :
                                w.out[i].k = "call" /\ w.out[i].ev = "emit" /\ w.out[i].nsp = n
                          THEN EmptyFlags ELSE mods[n]] ]

(***************************************************************************)
(* The server forgets a namespace that sent or was sent DISCONNECT, and an *)
(* engine the manager no longer listens to has nothing more to say.        *)
(***************************************************************************)
Hears(w, e) == [k |-> "runtime", e |-> e, fn |-> ""] \in w.m.subs

Server(w) ==
    [ st     |-> w.e.st,
      req    |-> IF Hears(w, "cur") THEN w.e.req ELSE {},
      oldreq |-> IF Hears(w, "old") THEN w.e.oldreq ELSE {} ]

Step(w, mods) ==
    /\ mgr' = w.m
    /\ sock' = w.s
    /\ eng' = Server(w)
    /\ out' = w.out
    /\ ghost' = GhostAfter(w, mods)

(***************************************************************************)
(* A step runs the handler H to completion.  R holds the listeners the     *)
(* user may have registered: at most one of them, one that listens to an   *)
(* event the step delivers, calls the library during the step.             *)
(***************************************************************************)
SocketCalls == {"disconnect", "connect", "emit"}

Reactions ==
    { [k |-> e.k, nsp |-> e.nsp, ev |-> e.ev, f |-> c.f, n |-> c.n, pos |-> 0] :
        e \in [k : {"emit"}, nsp : Nsps, ev : {"connect", "disconnect", "error"} \cup UserEvents]
               \cup [k : {"mgr"}, nsp : {""},
                     ev : {"open", "packet", "close", "error", "connect_error",
                           "reconnect_attempt",
                           "reconnecting", "reconnect_error", "reconnect_failed", "reconnect"}]
               \cup [k : {"ack"}, nsp : Nsps, ev : {""}]
               \cup [k : {"cb"}, nsp : {""}, ev : {"ok", "err"}],
        c \in [f : SocketCalls, n : Nsps] \cup [f : {"open", "_close"}, n : {""}] }

(* The effects o hold an event r listens to; a packet received is the      *)
(* manager's "packet".                                                     *)
Fires(o, r) ==
    \E i \in 1..Len(o) :
        \/ Listens(r, o[i])
        \/ r.k = "mgr" /\ r.ev = "packet" /\ o[i].k = "recv"

Callable(r) == r.f \in SocketCalls => r.n \in mgr.nsps

Within(w) == \A n \in Nsps : Len(w.s[n].sendBuffer) <= MaxBuf

(* The places a listener can have among the sockets subscribed to its event *)
Places(r) ==
    IF r.k = "mgr" /\ r.ev \in {"open", "packet", "close"}
    THEN {[r EXCEPT !.pos = p] : p \in 0..Len(mgr.listeners)}
    ELSE {r}

Do(H(_), R, mods) ==
    \E base \in {H(World)} :
    \E r \in {NoReaction} \cup
              UNION {Places(x) : x \in {y \in R : Fires(base.out, y) /\ Callable(y)}} :
    \E w \in {IF r = NoReaction THEN base ELSE H(WorldWith(r))} :
        /\ Within(w)
        /\ Step(w, mods)

(***************************************************************************)
(* Initial states: a Manager constructed with some configuration.          *)
(***************************************************************************)
Configs ==
    { Constructed(a, r, k, t) :
        a \in BOOLEAN, r \in BOOLEAN, k \in 1..MaxAttempts, t \in Timeouts }

InitFrom(w) ==
    /\ mgr = w.m
    /\ sock = w.s
    /\ eng = w.e
    /\ out = w.out
    /\ ghost = NewGhost

Init == \E w \in Configs : InitFrom(w)

(***************************************************************************)
(* Calls of the user.                                                      *)
(***************************************************************************)
UserSocket(n, auth) ==
    /\ n \notin mgr.nsps
    /\ Step(Manager_socket(World, n, auth), ghost.mods)

(* socket(nsp) called again for a namespace that has its Socket *)
UserSocketAgain(n, auth) ==
    /\ n \in mgr.nsps
    /\ Step(Manager_socket(World, n, auth), ghost.mods)

UserConnect(n) ==
    /\ n \in mgr.nsps
    /\ Step(Socket_connect(World, n), ghost.mods)

UserDisconnect(n, R) ==
    /\ n \in mgr.nsps
    /\ Do(LAMBDA w : Socket_disconnect(w, n), R, ghost.mods)

(* An auth function calls the callback it was given, after it returned. *)
AuthCallback(n) ==
    /\ n \in mgr.nsps
    /\ sock[n].authCb
    /\ Step(authCallback(Log(World, Obs("call", n, "", "authcb", NoId, FALSE, sock[n].id)), n),
            ghost.mods)

UserReconnection(v) == Step(Manager_reconnection(World, v), ghost.mods)

UserReconnectionAttempts(v) == Step(Manager_reconnectionAttempts(World, v), ghost.mods)

UserTimeout(v) == Step(Manager_timeout(World, v), ghost.mods)

UserEmit(n, ev, hasBin, hasAck) ==
    /\ n \in mgr.nsps
    /\ hasAck => sock[n].ids < MaxIds
    /\ ~sock[n].connected => Len(sock[n].sendBuffer) < MaxBuf
    /\ Step(Socket_emit(World, n, ev, hasBin, hasAck),
            [ghost.mods EXCEPT ![n] = EmptyFlags])

UserCompress(n, b) ==
    /\ n \in mgr.nsps
    /\ Step(Socket_compress(World, n, b),
            [ghost.mods EXCEPT ![n] = SetFlag(@, "compress", b)])

UserBinary(n, b) ==
    /\ n \in mgr.nsps
    /\ Step(Socket_binary(World, n, b),
            [ghost.mods EXCEPT ![n] = SetFlag(@, "binary", b)])

(* The ack functions of socket n that a handler of the user was given. *)
Delivered(n) ==
    Len(sock[n].ackFns)
    - Cardinality({i \in 1..Len(sock[n].receiveBuffer) : sock[n].receiveBuffer[i].id # NoId})

UserAck(n, i, hasBin) ==
    /\ n \in mgr.nsps
    /\ i \in 1..Delivered(n)
    /\ Step(ackFn(World, n, i, hasBin), ghost.mods)

UserOpen(fn) ==
    /\ Step(Manager_open(World, fn), ghost.mods)

UserClose ==
    /\ Step(_close(World), ghost.mods)

(***************************************************************************)
(* Events of the engine and timers.                                        *)
(***************************************************************************)
EngineOpen(R) ==
    /\ eng.st = "opening"
    /\ \E x \in mgr.subs :
          /\ x.k = "open"
          /\ Do(LAMBDA w : openSub([w EXCEPT !.e.st = "open"], x.fn), R, ghost.mods)

EngineError(R) ==
    /\ eng.st = "opening"
    /\ \E x \in mgr.subs :
          /\ x.k = "error"
          /\ Do(LAMBDA w : errorSub([w EXCEPT !.e.st = "closed"], x.fn, "error"), R, ghost.mods)

Listening(e) ==
    /\ [k |-> "runtime", e |-> e, fn |-> ""] \in mgr.subs
    /\ e = "cur" => eng.st \in {"open", "closing"}

CloseReasons(e) ==
    IF e = "old" \/ eng.st = "closing" THEN {"forced close"}
    ELSE {"transport close", "transport error"}

EngineClose(e, reason, R) ==
    /\ Listening(e)
    /\ reason \in CloseReasons(e)
    /\ Do(LAMBDA w :
             LET w0 == IF e = "cur" THEN [w EXCEPT !.e.st = "closed"] ELSE w
                 w1 == IF reason = "transport error" THEN Manager_onerror(w0) ELSE w0
             IN Manager_onclose(w1, reason),
          R, ghost.mods)

Packets ==
    [type : {"CONNECT"}, nsp : Nsps, ev : {""}, id : {NoId}, sid : 1..MaxSid]
    \cup [type : {"DISCONNECT", "ERROR"}, nsp : Nsps, ev : {""}, id : {NoId}, sid : {NoSid}]
    \cup [type : {"EVENT", "BINARY_EVENT"}, nsp : Nsps, ev : UserEvents,
          id : {NoId, 0}, sid : {NoSid}]
    \cup [type : {"ACK", "BINARY_ACK"}, nsp : Nsps, ev : {""},
          id : 0..(MaxIds - 1), sid : {NoSid}]

(* The server behind engine e sends p; its DISCONNECT ends the namespace. *)
Sent(w, e, p) ==
    IF p.type # "DISCONNECT" THEN w
    ELSE IF e = "cur" THEN [w EXCEPT !.e.req = @ \ {p.nsp}]
    ELSE [w EXCEPT !.e.oldreq = @ \ {p.nsp}]

Requested(e) == IF e = "cur" THEN eng.req ELSE eng.oldreq

EngineData(e, p, R) ==
    /\ Listening(e)
    /\ p.type # "ERROR" => p.nsp \in Requested(e)
    /\ (p.type \in {"EVENT", "BINARY_EVENT"} /\ ~sock[p.nsp].connected)
          => Len(sock[p.nsp].receiveBuffer) < MaxBuf
    /\ (p.type \in {"EVENT", "BINARY_EVENT"} /\ p.id # NoId)
          => Len(sock[p.nsp].ackFns) < MaxFns
    /\ Do(LAMBDA w : ondecoded(Sent(w, e, p), p), R, ghost.mods)

ConnectTimeout(R) ==
    \E x \in mgr.subs :
        /\ x.k = "timeout"
        /\ Do(LAMBDA w : timeoutTimer(w, x.fn), R, ghost.mods)

ReconnectTimer(R) ==
    /\ \E x \in mgr.subs : x.k = "rtimer"
    /\ Do(LAMBDA w : reconnectTimer(w), R, ghost.mods)

Next ==
    \/ \E n \in Nsps, auth \in AuthKinds : UserSocket(n, auth)
    \/ \E n \in Nsps, auth \in AuthKinds : UserSocketAgain(n, auth)
    \/ \E n \in Nsps : UserConnect(n)
    \/ \E n \in Nsps : UserDisconnect(n, Reactions)
    \/ \E n \in Nsps : AuthCallback(n)
    \/ \E v \in BOOLEAN : UserReconnection(v)
    \/ \E v \in 1..MaxAttempts : UserReconnectionAttempts(v)
    \/ \E v \in Timeouts : UserTimeout(v)
    \/ \E n \in Nsps, ev \in UserEvents \cup RESERVED_EVENTS, hasBin \in BOOLEAN,
          hasAck \in BOOLEAN : UserEmit(n, ev, hasBin, hasAck)
    \/ \E n \in Nsps, b \in BOOLEAN : UserCompress(n, b)
    \/ \E n \in Nsps, b \in BOOLEAN : UserBinary(n, b)
    \/ \E n \in Nsps, i \in 1..MaxFns, hasBin \in BOOLEAN : UserAck(n, i, hasBin)
    \/ \E fn \in {"none", "user"} : UserOpen(fn)
    \/ UserClose
    \/ EngineOpen(Reactions)
    \/ EngineError(Reactions)
    \/ \E e \in {"cur", "old"}, reason \in {"forced close", "transport close", "transport error"} :
          EngineClose(e, reason, Reactions)
    \/ \E e \in {"cur", "old"}, p \in Packets : EngineData(e, p, Reactions)
    \/ ConnectTimeout(Reactions)
    \/ ReconnectTimer(Reactions)

Spec == Init /\ [][Next]_vars

(***************************************************************************)
(* The connection life cycle of two sockets on one manager without connect *)
(* timeout: autoConnect and reconnection of either value, every call that  *)
(* attaches, detaches, opens or closes, by the user and by listeners of    *)
(* the sockets, every engine event, the reconnect loop, CONNECT and        *)
(* DISCONNECT packets (the session id of a CONNECT is opaque to the life   *)
(* cycle: one value).                                                      *)
(***************************************************************************)
LifePackets == {p \in Packets : p.type \in {"CONNECT", "DISCONNECT"} /\ p.sid \in {NoSid, 1}}

(* Listeners of the manager's "packet" that disconnect "/" or connect it,
   and listeners of a socket's connect and disconnect that disconnect the
   socket or connect it again. *)
LifeListeners ==
    {r \in Reactions : r.k = "mgr" /\ r.ev = "packet" /\ r.f \in {"disconnect", "connect"} /\ r.n = Root} \cup
    {r \in Reactions : r.k = "emit" /\ r.ev \in {"connect", "disconnect"}
                        /\ r.f \in {"disconnect", "connect"} /\ r.n = r.nsp}

InitLife ==
    \E a \in BOOLEAN, r \in BOOLEAN : InitFrom(Constructed(a, r, 1, "false"))

NextLife ==
    \/ \E n \in Nsps : UserSocket(n, "value")
    \/ \E n \in Nsps : UserConnect(n)
    \/ \E n \in Nsps : UserDisconnect(n, LifeListeners)
    \/ \E fn \in {"none", "user"} : UserOpen(fn)
    \/ UserClose
    \/ EngineOpen(LifeListeners)
    \/ EngineError(LifeListeners)
    \/ \E e \in {"cur", "old"}, reason \in {"forced close", "transport close", "transport error"} :
          EngineClose(e, reason, LifeListeners)
    \/ \E e \in {"cur", "old"}, p \in LifePackets : EngineData(e, p, LifeListeners)
    \/ ReconnectTimer(LifeListeners)

SpecLife == InitLife /\ [][NextLife]_vars

(***************************************************************************)
(* The manager with one socket: every configuration and the setters that   *)
(* change it, open and close called by the user and by listeners of the    *)
(* manager's events, every engine event and timer.                         *)
(***************************************************************************)
(* Listeners of the manager's events, and callbacks given to open, that    *)
(* open or close the manager.                                              *)
MgrListeners ==
    {r \in Reactions : r.k \in {"mgr", "cb"} /\ r.f \in {"open", "_close"}}

MgrPackets == {p \in LifePackets : p.nsp = Root}

InitMgr ==
    \E a \in BOOLEAN, r \in BOOLEAN, k \in 1..MaxAttempts :
        InitFrom(Constructed(a, r, k, "false"))

NextMgr ==
    \/ UserSocket(Root, "value")
    \/ UserConnect(Root)
    \/ UserDisconnect(Root, MgrListeners)
    \/ \E v \in BOOLEAN : UserReconnection(v)
    \/ \E v \in 1..MaxAttempts : UserReconnectionAttempts(v)
    \/ \E fn \in {"none", "user"} : UserOpen(fn)
    \/ UserClose
    \/ EngineOpen(MgrListeners)
    \/ EngineError(MgrListeners)
    \/ \E reason \in {"forced close", "transport close", "transport error"} :
          EngineClose("cur", reason, MgrListeners)
    \/ \E p \in MgrPackets : EngineData("cur", p, MgrListeners)
    \/ ReconnectTimer(MgrListeners)

SpecMgr == InitMgr /\ [][NextMgr]_vars

(***************************************************************************)
(* The connect timeout: a reconnecting manager with one socket, every      *)
(* value of timeout and the setter that changes it, open and close called  *)
(* by the user and by listeners, the engine opening, failing and closing,  *)
(* the timeout timer and the reconnect loop.                               *)
(***************************************************************************)
InitTimeout ==
    \E a \in BOOLEAN, t \in Timeouts : InitFrom(Constructed(a, TRUE, 1, t))

NextTimeout ==
    \/ UserSocket(Root, "value")
    \/ UserConnect(Root)
    \/ UserDisconnect(Root, MgrListeners)
    \/ \E v \in Timeouts : UserTimeout(v)
    \/ \E fn \in {"none", "user"} : UserOpen(fn)
    \/ UserClose
    \/ EngineOpen(MgrListeners)
    \/ EngineError(MgrListeners)
    \/ \E e \in {"cur", "old"}, reason \in {"forced close", "transport close", "transport error"} :
          EngineClose(e, reason, MgrListeners)
    \/ \E e \in {"cur", "old"}, p \in MgrPackets : EngineData(e, p, MgrListeners)
    \/ ConnectTimeout(MgrListeners)
    \/ ReconnectTimer(MgrListeners)

SpecTimeout == InitTimeout /\ [][NextTimeout]_vars

(***************************************************************************)
(* Sending on one socket of a reconnecting manager, in two parts.  The     *)
(* first is about the send buffer: emits with and without an ack callback, *)
(* connected or not, the CONNECT and DISCONNECT of the server, the engine  *)
(* opening, failing and closing, the reconnect loop.  The second is about  *)
(* ack ids and callbacks: emits with an ack callback and the acks of the   *)
(* server in place of the emits without one.                               *)
(***************************************************************************)
InitOne == InitFrom(Constructed(TRUE, TRUE, 1, "false"))

SendPackets ==
    {p \in Packets : p.nsp = Root /\ p.sid \in {NoSid, 1}
                      /\ p.type \in {"CONNECT", "DISCONNECT"}}

(* Listeners of the manager's "packet" and of the socket's events that emit
   on the socket or disconnect it. *)
SendListeners ==
    {r \in Reactions : ((r.k = "mgr" /\ r.ev = "packet") \/ (r.k = "emit" /\ r.nsp = Root))
                        /\ r.f \in {"emit", "disconnect"} /\ r.n = Root}

NextSend ==
    \/ UserSocket(Root, "value")
    \/ UserConnect(Root)
    \/ UserDisconnect(Root, SendListeners)
    \/ UserEmit(Root, "hi", FALSE, TRUE)
    \/ UserEmit(Root, "yo", FALSE, FALSE)
    \/ EngineOpen(SendListeners)
    \/ EngineError(SendListeners)
    \/ EngineClose("cur", "transport close", SendListeners)
    \/ \E p \in SendPackets : EngineData("cur", p, SendListeners)
    \/ ReconnectTimer(SendListeners)

SpecSend == InitOne /\ [][NextSend]_vars

IdPackets ==
    {p \in Packets : p.nsp = Root /\ p.sid \in {NoSid, 1}
                      /\ p.type \in {"CONNECT", "ACK", "BINARY_ACK", "DISCONNECT"}
                      /\ (p.type = "BINARY_ACK" => p.id = 0)}

(* Listeners of the manager's "packet", listeners of the socket's events and
   ack callbacks that emit on the socket or disconnect it. *)
IdListeners ==
    {r \in Reactions :
        /\ r.n = Root
        /\ \/ r.k = "mgr" /\ r.ev = "packet" /\ r.f = "disconnect"
           \/ r.k = "ack" /\ r.nsp = Root /\ r.f \in {"emit", "disconnect"}
           \/ r.k = "emit" /\ r.nsp = Root /\ r.ev = "connect" /\ r.f = "emit"}

NextIds ==
    \/ UserSocket(Root, "value")
    \/ UserConnect(Root)
    \/ UserDisconnect(Root, IdListeners)
    \/ UserEmit(Root, "hi", FALSE, TRUE)
    \/ EngineOpen(IdListeners)
    \/ EngineError(IdListeners)
    \/ EngineClose("cur", "transport close", IdListeners)
    \/ \E p \in IdPackets : EngineData("cur", p, IdListeners)
    \/ ReconnectTimer(IdListeners)

SpecIds == InitOne /\ [][NextIds]_vars

(***************************************************************************)
(* The handshake of the sockets of a reconnecting manager: a socket whose  *)
(* auth is a value or a function of any kind and a second socket, attached *)
(* and detached, the callback of an auth function called after the         *)
(* function returned, the engine opening, failing and closing, the         *)
(* reconnect loop, listeners of the manager's open and packet that connect *)
(* a socket and listeners of a socket's disconnect that connect it again.  *)
(***************************************************************************)
AuthListeners ==
    {r \in Reactions : r.k = "mgr" /\ r.ev = "packet" /\ r.f = "connect" /\ r.n = Root} \cup
    {r \in Reactions :
        \/ r.k = "mgr" /\ r.ev = "open" /\ r.f = "connect" /\ r.n = Root
        \/ r.k = "emit" /\ r.ev = "disconnect" /\ r.f = "connect" /\ r.n = r.nsp}

NextAuth ==
    \/ \E auth \in AuthKinds : UserSocket(Root, auth)
    \/ UserSocket("/a", "value")
    \/ \E n \in Nsps : UserConnect(n)
    \/ \E n \in Nsps : UserDisconnect(n, AuthListeners)
    \/ \E n \in Nsps : AuthCallback(n)
    \/ UserOpen("none")
    \/ EngineOpen(AuthListeners)
    \/ EngineError(AuthListeners)
    \/ \E e \in {"cur", "old"}, reason \in {"forced close", "transport close"} :
          EngineClose(e, reason, AuthListeners)
    \/ \E e \in {"cur", "old"}, p \in LifePackets : EngineData(e, p, AuthListeners)
    \/ ReconnectTimer(AuthListeners)

SpecAuth == InitOne /\ [][NextAuth]_vars

(***************************************************************************)
(* Receiving on one socket: the events of the server, with and without an  *)
(* ack id, arriving before and after the CONNECT of the namespace.         *)
(***************************************************************************)
RecvPackets ==
    {p \in Packets : p.nsp = Root /\ p.sid \in {NoSid, 1}
                      /\ p.type \in {"CONNECT", "EVENT", "BINARY_EVENT", "DISCONNECT"}}

(* The listener of the manager's "packet" that emits on the socket, and
   listeners of connect and of an event of the server that emit on the
   socket or disconnect it. *)
RecvListeners ==
    {r \in Reactions : r.k = "mgr" /\ r.ev = "packet" /\ r.f = "emit" /\ r.n = Root} \cup
    {r \in Reactions : r.k = "emit" /\ r.nsp = Root /\ r.ev \in {"connect", "hi"}
                        /\ r.f \in {"emit", "disconnect"} /\ r.n = Root}

NextRecv ==
    \/ UserSocket(Root, "value")
    \/ UserConnect(Root)
    \/ UserDisconnect(Root, RecvListeners)
    \/ UserEmit(Root, "hi", FALSE, FALSE)
    \/ EngineOpen(RecvListeners)
    \/ EngineClose("cur", "transport close", RecvListeners)
    \/ \E p \in RecvPackets : EngineData("cur", p, RecvListeners)
    \/ ReconnectTimer(RecvListeners)

SpecRecv == InitOne /\ [][NextRecv]_vars

(***************************************************************************)
(* The one-shot modifiers of one socket: compress and binary set before    *)
(* emits of user events and of reserved names, connected or not.           *)
(***************************************************************************)
(* The listeners of the manager's "packet" and of connect that emit on the
   socket. *)
FlagListeners ==
    {r \in Reactions : r.k = "mgr" /\ r.ev = "packet" /\ r.f = "emit" /\ r.n = Root} \cup
    {r \in Reactions : r.k = "emit" /\ r.nsp = Root /\ r.ev = "connect" /\ r.f = "emit" /\ r.n = Root}

NextFlags ==
    \/ UserSocket(Root, "value")
    \/ \E b \in BOOLEAN : UserCompress(Root, b)
    \/ \E b \in BOOLEAN : UserBinary(Root, b)
    \/ \E ev \in {"hi"} \cup RESERVED_EVENTS, hasBin \in BOOLEAN, hasAck \in BOOLEAN :
          UserEmit(Root, ev, hasBin, hasAck)
    \/ EngineOpen(FlagListeners)
    \/ \E p \in {q \in Packets : q.nsp = Root /\ q.type = "CONNECT"} : EngineData("cur", p, FlagListeners)

SpecFlags == InitOne /\ [][NextFlags]_vars

(***************************************************************************)
(* Two sockets multiplexed on one manager: packets of every type, events   *)
(* for "/" and the other packets for either namespace, emits with an ack   *)
(* callback on "/a", a socket leaving.                                     *)
(***************************************************************************)
MuxPackets ==
    {p \in Packets :
        /\ p.type \in {"EVENT", "BINARY_EVENT"} => (p.nsp = Root /\ p.ev = "hi" /\ p.id = NoId)
        /\ p.type = "BINARY_ACK" => p.id = 0
        /\ p.sid \in {NoSid, 1}}

(* The listener of the manager's "packet" that disconnects "/a", and
   listeners of the events of one socket that disconnect the other.  The
   server sends the events of "/" once "/" is connected. *)
MuxListeners ==
    {r \in Reactions : r.k = "mgr" /\ r.ev = "packet" /\ r.f = "disconnect" /\ r.n = "/a"} \cup
    {r \in Reactions : r.k = "emit" /\ r.f = "disconnect" /\ r.n # r.nsp}

NextMux ==
    \/ \E n \in Nsps : UserSocket(n, "value")
    \/ \E n \in Nsps : UserDisconnect(n, MuxListeners)
    \/ UserEmit("/a", "hi", FALSE, TRUE)
    \/ EngineOpen(MuxListeners)
    \/ \E p \in MuxPackets :
          /\ p.type \in {"EVENT", "BINARY_EVENT"} => sock[Root].connected
          /\ EngineData("cur", p, MuxListeners)

SpecMux == InitOne /\ [][NextMux]_vars

(***************************************************************************)
(* socket(nsp) called any number of times on a reconnecting manager, with  *)
(* sockets leaving and coming back, the manager closed and opened again,   *)
(* the engine failing and closing.                                         *)
(***************************************************************************)
(* The listener of a socket's disconnect that connects it again, the
   listener of the manager's close that opens it again, and listeners of
   the manager's "packet" that connect a socket or open the manager. *)
NspsListeners ==
    {r \in Reactions : r.k = "mgr" /\ r.ev = "packet" /\ r.f \in {"connect", "open"}} \cup
    {r \in Reactions :
        \/ r.k = "emit" /\ r.ev = "disconnect" /\ r.f = "connect" /\ r.n = r.nsp
        \/ r.k = "mgr" /\ r.ev = "close" /\ r.f = "open"}

NextNsps ==
    \/ \E n \in Nsps : UserSocket(n, "value")
    \/ \E n \in Nsps : UserSocketAgain(n, "value")
    \/ \E n \in Nsps : UserConnect(n)
    \/ \E n \in Nsps : UserDisconnect(n, NspsListeners)
    \/ UserOpen("none")
    \/ UserClose
    \/ EngineOpen(NspsListeners)
    \/ EngineError(NspsListeners)
    \/ \E e \in {"cur", "old"}, reason \in {"forced close", "transport close"} :
          EngineClose(e, reason, NspsListeners)
    \/ \E e \in {"cur", "old"}, p \in LifePackets : EngineData(e, p, NspsListeners)
    \/ ReconnectTimer(NspsListeners)

SpecNsps == InitOne /\ [][NextNsps]_vars

(***************************************************************************)
(* Acknowledging inbound events on one socket: events that carry an id,    *)
(* received connected or not, their ack functions called any number of     *)
(* times, before and after the socket or the engine went away.             *)
(***************************************************************************)
AckPackets ==
    {p \in Packets :
        /\ p.nsp = Root
        /\ p.type \in {"CONNECT", "EVENT", "DISCONNECT"}
        /\ p.type = "EVENT" => (p.ev = "hi" /\ p.id # NoId)}

(* Listeners of the manager's "packet" and of the socket's events that emit
   on the socket or disconnect it. *)
AckListeners ==
    {r \in Reactions : r.k = "mgr" /\ r.ev = "packet" /\ r.f \in {"emit", "disconnect"} /\ r.n = Root} \cup
    {r \in Reactions : r.k = "emit" /\ r.nsp = Root /\ r.f \in {"emit", "disconnect"} /\ r.n = Root}

NextAck ==
    \/ UserSocket(Root, "value")
    \/ UserConnect(Root)
    \/ UserDisconnect(Root, AckListeners)
    \/ \E i \in 1..MaxFns, hasBin \in BOOLEAN : UserAck(Root, i, hasBin)
    \/ EngineOpen(AckListeners)
    \/ EngineClose("cur", "transport close", AckListeners)
    \/ \E p \in AckPackets : EngineData("cur", p, AckListeners)
    \/ ReconnectTimer(AckListeners)

SpecAck == InitOne /\ [][NextAck]_vars

(***************************************************************************)
(* The reconnect loop under fair scheduling: reconnection enabled, a       *)
(* finite reconnectionAttempts, a connect timeout set.  A pending timer    *)
(* fires, and an engine that is opening opens, errors or is timed out;     *)
(* the calls of the user and the close of an open engine may or may not    *)
(* happen.                                                                 *)
(***************************************************************************)
InitLive ==
    \E a \in BOOLEAN, k \in 1..MaxAttempts : InitFrom(Constructed(a, TRUE, k, "positive"))

AttemptEnds == EngineOpen({}) \/ EngineError({}) \/ ConnectTimeout({})

NextLive ==
    \/ UserSocket(Root, "value")
    \/ UserConnect(Root)
    \/ UserDisconnect(Root, {})
    \/ \E fn \in {"none", "user"} : UserOpen(fn)
    \/ UserClose
    \/ AttemptEnds
    \/ \E e \in {"cur", "old"}, reason \in {"forced close", "transport close", "transport error"} :
          EngineClose(e, reason, {})
    \/ \E e \in {"cur", "old"}, p \in {q \in LifePackets : q.nsp = Root} : EngineData(e, p, {})
    \/ ReconnectTimer({})

SpecLive ==
    /\ InitLive
    /\ [][NextLive]_vars
    /\ WF_vars(AttemptEnds)
    /\ WF_vars(ReconnectTimer({}))

(***************************************************************************)
(*                              The claims                                 *)
(***************************************************************************)
IsEmit(o, ev) == o.k = "emit" /\ o.ev = ev

IsMgr(o, ev) == o.k = "mgr" /\ o.ev = ev

IsCall(o, ev) == o.k = "call" /\ o.ev = ev

Attached == {n \in Nsps : sock[n].subs}

TimerPending == \E x \in mgr.subs : x.k = "rtimer"

(* C1: in every reachable state, every socket has exactly one of connected
   and disconnected true. *)
C1_ConnectedXorDisconnected ==
    \A n \in Nsps : sock[n].connected # sock[n].disconnected

(* C1 witness: one socket is connected while the other has just been
   disconnected by the server. *)
C1_Witness ==
    /\ sock["/"].connected
    /\ ~sock["/a"].connected
    /\ \E i \in 1..Len(out) :
          IsEmit(out[i], "disconnect") /\ out[i].nsp = "/a"
                                       /\ out[i].t = "io server disconnect"

(* A listener of the user called the library during the step. *)
Reacts(o) == \E i \in 1..Len(o) : IsCall(o[i], "listener")

(* The effects o of a step without those of the call a listener made: the
   entries from "listener" to "listener_end" are left out. *)
Own(o) ==
    LET Inside == {i \in 1..Len(o) :
                      \E a \in 1..i, b \in i..Len(o) :
                          IsCall(o[a], "listener") /\ IsCall(o[b], "listener_end")}
        F[i \in 0..Len(o)] ==
            IF i = 0 THEN << >>
            ELSE IF i \in Inside THEN F[i - 1] ELSE Append(F[i - 1], o[i])
    IN F[Len(o)]

(* A listener of the user called socket n during the step. *)
Calls(o, n) == \E i \in 1..Len(o) : IsCall(o[i], "listener") /\ o[i].nsp = n

(* The packets and deliveries of socket n among the effects o of a step. *)
Writes(o, n) ==
    LET IsWrite(x) == x.k = "write" /\ x.nsp = n /\ x.t \in {"EVENT", "BINARY_EVENT"}
        ws == SelectSeq(o, IsWrite)
    IN [i \in 1..Len(ws) |->
           [type |-> ws[i].t, ev |-> ws[i].ev, id |-> ws[i].id, compress |-> ws[i].c]]

Seen(o, n) ==
    LET Mine(x) == x.nsp = n /\ x.k \in {"emit", "write"}
        ms == SelectSeq(o, Mine)
    IN [i \in 1..Len(ms) |-> <<ms[i].k, ms[i].ev, ms[i].id>>]

Connects(o, n) == \E i \in 1..Len(o) : IsEmit(o[i], "connect") /\ o[i].nsp = n

EmitCalls(o, n) ==
    {i \in 1..Len(o) : IsCall(o[i], "emit") /\ o[i].nsp = n /\ o[i].t \notin RESERVED_EVENTS}

Received(o, n) ==
    {i \in 1..Len(o) : o[i].k = "recv" /\ o[i].nsp = n /\ o[i].t \in {"EVENT", "BINARY_EVENT"}}

(* The effects o of a step: the emit calls of socket n on a connected socket
   write their packet at once (the entry that follows the call), those on a
   socket that is not connected queue it. *)
DirectEmits(o, n) == {i \in EmitCalls(o, n) : o[i].c}

QueuedEmits(o, n) ==
    LET Queues(x) == IsCall(x, "emit") /\ x.nsp = n /\ ~x.c /\ x.t \notin RESERVED_EVENTS
        qs == SelectSeq(o, Queues)
    IN [i \in 1..Len(qs) |-> qs[i].t]

(* The event packets of socket n written by the step, those of direct emits
   left out. *)
FlushWrites(o, n) ==
    LET Keep == {i \in 1..Len(o) :
                    /\ o[i].k = "write" /\ o[i].nsp = n /\ o[i].t \in {"EVENT", "BINARY_EVENT"}
                    /\ (i - 1) \notin DirectEmits(o, n)}
        F[i \in 0..Len(o)] ==
            IF i = 0 THEN << >>
            ELSE IF i \in Keep
                 THEN Append(F[i - 1], [type |-> o[i].t, ev |-> o[i].ev, id |-> o[i].id,
                                        compress |-> o[i].c])
                 ELSE F[i - 1]
    IN F[Len(o)]

(* C2: an emit on a socket that is not connected writes nothing and appends
   its packet to sendBuffer; the step that emits connect on the socket writes
   exactly the packets of sendBuffer, in their order, once each, and leaves
   sendBuffer empty; no other step removes a packet from sendBuffer or writes
   a queued event, so the buffer survives any number of failed connection
   attempts.  An emit made by a listener while the socket is connected writes
   its own packet at once; one made by a listener of the manager's "packet"
   before the socket has seen the CONNECT is queued behind sendBuffer and
   written with it. *)
C2_SendBufferFlushedInOrder ==
    [][ \A n \in Nsps :
          /\ \A i \in DirectEmits(out', n) :
                i < Len(out') /\ out'[i + 1].k = "write" /\ out'[i + 1].nsp = n
                              /\ out'[i + 1].ev = out'[i].t
          /\ Connects(out', n) =>
                LET fw == FlushWrites(out', n)
                    sb == sock[n].sendBuffer
                    q  == QueuedEmits(out', n)
                IN /\ Len(fw) = Len(sb) + Len(q)
                   /\ SubSeq(fw, 1, Len(sb)) = sb
                   /\ \A i \in 1..Len(q) : fw[Len(sb) + i].ev = q[i]
                   /\ sock'[n].sendBuffer = << >>
          /\ ~Connects(out', n) =>
                /\ FlushWrites(out', n) = << >>
                /\ Len(sock'[n].sendBuffer) = Len(sock[n].sendBuffer) + Len(QueuedEmits(out', n))
                /\ SubSeq(sock'[n].sendBuffer, 1, Len(sock[n].sendBuffer)) = sock[n].sendBuffer
                /\ \A i \in 1..Len(QueuedEmits(out', n)) :
                      sock'[n].sendBuffer[Len(sock[n].sendBuffer) + i].ev = QueuedEmits(out', n)[i]
      ]_vars

C2_Witness ==
    /\ Len(out) = 8
    /\ out[1].k = "recv" /\ out[1].t = "CONNECT"
    /\ IsEmit(out[2], "connect")
    /\ IsCall(out[3], "listener")
    /\ IsCall(out[4], "emit") /\ out[4].c
    /\ out[5].k = "write" /\ out[5].ev = "hi" /\ out[5].id = NoId
    /\ IsCall(out[6], "listener_end")
    /\ out[7].k = "write" /\ out[7].ev = "yo" /\ out[7].id = NoId
    /\ out[8].k = "write" /\ out[8].ev = "hi" /\ out[8].id = 0
    /\ sock[Root].sendBuffer = << >>

(* C3: an event received while the socket is attached and not connected is
   not delivered in that step and is appended to receiveBuffer; the step that
   emits connect on the socket delivers, after the connect event and before
   the packets of sendBuffer, exactly the events of receiveBuffer in their
   order, and leaves receiveBuffer empty; no other step changes
   receiveBuffer.  What a listener of these events does by calling the
   library comes in between and changes none of this; an event a listener of
   the manager's "packet" queued before the socket saw the CONNECT is written
   last. *)
C3_ReceiveBufferDeliveredInOrder ==
    [][ \A n \in Nsps :
          LET rb == sock[n].receiveBuffer
              sb == sock[n].sendBuffer
          IN
          /\ Connects(out', n) =>
                LET seen == Seen(Own(out'), n)
                    q    == QueuedEmits(out', n)
                    old  == 1 + Len(rb) + Len(sb)
                IN /\ Len(seen) = old + Len(q)
                   /\ SubSeq(seen, 1, old) =
                         << <<"emit", "connect", NoId>> >>
                         \o [i \in 1..Len(rb) |-> <<"emit", rb[i].ev, rb[i].id>>]
                         \o [i \in 1..Len(sb) |-> <<"write", sb[i].ev, sb[i].id>>]
                   /\ \A i \in 1..Len(q) :
                         seen[old + i][1] = "write" /\ seen[old + i][2] = q[i]
                   /\ sock'[n].receiveBuffer = << >>
          /\ (Received(out', n) # {} /\ sock[n].subs /\ ~sock[n].connected) =>
                /\ Seen(Own(out'), n) = << >>
                /\ \A i \in Received(out', n) :
                      sock'[n].receiveBuffer = Append(rb, [ev |-> out'[i].ev, id |-> out'[i].id])
          /\ (~Connects(out', n) /\ Received(out', n) = {}) =>
                sock'[n].receiveBuffer = rb
      ]_vars

C3_Witness ==
    /\ Len(out) = 5
    /\ out[1].k = "recv" /\ out[1].t = "CONNECT"
    /\ IsEmit(out[2], "connect")
    /\ IsEmit(out[3], "yo") /\ out[3].id = NoId
    /\ IsEmit(out[4], "hi") /\ out[4].id = 0
    /\ out[5].k = "write" /\ out[5].ev = "hi"
    /\ sock[Root].receiveBuffer = << >>

(* C4: a socket that is not connected has no id; the id is already cleared
   when a disconnect event is delivered; and no attached socket has an id
   when the manager emits reconnect_attempt.  (The step that emits
   reconnect_attempt changes no socket.) *)
C4_IdOnlyWhileConnected ==
    /\ \A n \in Nsps : ~sock[n].connected => sock[n].id = NoSid
    /\ \A i \in 1..Len(out) : IsEmit(out[i], "disconnect") => out[i].sid = NoSid
    /\ Has(out, "mgr", "reconnect_attempt") => \A n \in Attached : sock[n].id = NoSid

(* C5: while the manager is explicitly closed (_close() ran and open() has
   created no engine since), no reconnect_attempt is emitted and the
   reconnect loop creates no engine; the state of "closed" is followed
   through the calls made inside the step. *)
C5_NoReconnectAfterClose ==
    [][ \A i \in 1..Len(out') :
          (IsMgr(out'[i], "reconnect_attempt") \/
           (IsCall(out'[i], "open") /\ out'[i].t = "reconnect"))
          => ~ClosedAfter(ghost.closed, SubSeq(out', 1, i - 1)) ]_vars

(* C5 witness: the delay timer fired on an explicitly closed manager and
   did nothing else. *)
C5_Witness ==
    /\ ghost.closed
    /\ Len(out) = 1
    /\ IsCall(out[1], "timer")

(* C6: reconnect_failed is emitted after exactly reconnectionAttempts failed
   attempts of the loop, and from then on no reconnect delay timer is
   scheduled until an open() that is not the loop's own has succeeded. *)
C6_AttemptCap ==
    /\ Has(out, "mgr", "reconnect_failed") => ghost.fails = mgr.reconnectionAttempts
    /\ ghost.afterFailed => ~TimerPending

(* C7: the connecting set holds exactly the attached sockets. *)
C7_ConnectingIsAttached == mgr.connecting = Attached

(* C8: no ack packet invokes an ack callback that was registered, with its
   packet sent, before a disconnect event of its socket. *)
C8_AckDoesNotSurviveDisconnect ==
    [][ \A i \in 1..Len(out') :
          out'[i].k = "ack" => out'[i].id \notin ghost.oldAcks[out'[i].nsp] ]_vars

(* C9: after every call of emit the flags of the socket are empty, and an
   emit with no compress(false) since the previous call of emit produces a
   packet with compress true. *)
C9_FlagsOneShot ==
    [][ \A n \in Nsps : \A i \in 1..Len(out') :
          (IsCall(out'[i], "emit") /\ out'[i].nsp = n) =>
             /\ sock'[n].flags = EmptyFlags
             /\ ~("compress" \in DOMAIN ghost.mods[n] /\ ~ghost.mods[n]["compress"]) =>
                   /\ \A j \in 1..Len(Writes(out', n)) : Writes(out', n)[j].compress
                   /\ Len(sock'[n].sendBuffer) > Len(sock[n].sendBuffer) =>
                         sock'[n].sendBuffer[Len(sock'[n].sendBuffer)].compress
      ]_vars

(* C10: an emit of a reserved event name, on a socket connected or not,
   throws an error naming the event and does nothing else: no packet is
   written or buffered, ids and acks are unchanged. *)
C10_ReservedEmitThrows ==
    [][ \A i \in 1..Len(out') :
          (IsCall(out'[i], "emit") /\ out'[i].t \in RESERVED_EVENTS) =>
             LET n == out'[i].nsp
             IN /\ Len(out') = 2 /\ i = 1
                /\ out'[2].k = "throw" /\ out'[2].ev = out'[1].t /\ out'[2].nsp = n
                /\ sock'[n].sendBuffer = sock[n].sendBuffer
                /\ sock'[n].ids = sock[n].ids
                /\ sock'[n].acks = sock[n].acks
                /\ eng' = eng
      ]_vars

C10_Witness ==
    /\ Len(out) = 2
    /\ IsCall(out[1], "emit") /\ out[1].t = "disconnect"
    /\ out[2].k = "throw"
    /\ sock[Root].connected
    /\ sock[Root].acks = {0}
    /\ sock[Root].ids = 1

(* C11: a _close that finds the manager opening leaves no subscription of
   the attempt (open, error, connect-timeout timer) behind, and no
   connect_error is emitted from then on until open() creates another
   engine. *)
C11_CloseWhileOpeningIsSilent ==
    [][ /\ (\E i \in 1..Len(out') :
               /\ IsCall(out'[i], "_close") /\ out'[i].t = "opening"
               /\ ClosedAfter(FALSE, SubSeq(out', i, Len(out'))))
           => \A x \in mgr'.subs : x.k \notin {"open", "error", "timeout"}
        /\ \A i \in 1..Len(out') :
              IsMgr(out'[i], "connect_error")
              => ~AbandonedAfter(ghost.abandoned, SubSeq(out', 1, i - 1))
      ]_vars

C11_Witness ==
    /\ out = << Obs("call", Root, "", "disconnect", NoId, FALSE, NoSid),
                Obs("call", "", "opening", "_close", NoId, FALSE, NoSid) >>
    /\ mgr.timeout = "positive"
    /\ mgr.nsps = {Root}
    /\ ~sock[Root].subs
    /\ mgr.subs = {}

(* C12: whenever reconnect() schedules the reconnect delay timer the
   manager's readyState is closed. *)
C12_ScheduledOnlyWhenClosed ==
    [][ \A i \in 1..Len(out') :
          IsCall(out'[i], "setTimeout") => out'[i].t = "closed" ]_vars

(* The entries of kind k about socket n among the effects o of a step. *)
Of(o, n, k) ==
    LET Mine(x) == x.nsp = n /\ x.k = k
    IN SelectSeq(o, Mine)

(* The effects of the call logged at o[i]: when a listener made it, the
   entries up to the return of the listener; when the user made it, the
   effects of the step without what a listener did. *)
CallEffects(o, i) ==
    IF i > 1 /\ IsCall(o[i - 1], "listener")
    THEN SubSeq(o, i, CHOOSE j \in i..Len(o) : IsCall(o[j], "listener_end"))
    ELSE Own(o)

(* C13: disconnect() on a connected socket writes one DISCONNECT packet for
   its namespace and nothing else, detaches the socket and delivers one
   disconnect event, of reason "io client disconnect", whether or not the
   manager closes the engine; on a socket that is not connected it writes
   nothing and delivers nothing, and detaches; the socket stays detached
   unless a listener calls connect() on it, and not connected unless the
   CONNECT during whose delivery it was called reaches the socket after the
   call; a detached socket is delivered no disconnect event by any other
   step. *)
C13_DisconnectOnce ==
    [][ \A n \in Nsps :
          /\ \A i \in 1..Len(out') :
                (IsCall(out'[i], "disconnect") /\ out'[i].nsp = n) =>
                   LET eff == CallEffects(out', i)
                   IN /\ (~\E j \in i..Len(out') : IsCall(out'[j], "connect") /\ out'[j].nsp = n)
                            => ~sock'[n].subs
                      /\ (~\E j \in i..Len(out') : IsEmit(out'[j], "connect") /\ out'[j].nsp = n)
                            => ~sock'[n].connected
                      /\ IF out'[i].t = "connected"
                         THEN /\ Len(Of(eff, n, "write")) = 1
                              /\ Of(eff, n, "write")[1].t = "DISCONNECT"
                              /\ Len(Of(eff, n, "emit")) = 1
                              /\ IsEmit(Of(eff, n, "emit")[1], "disconnect")
                              /\ Of(eff, n, "emit")[1].t = "io client disconnect"
                         ELSE /\ Of(eff, n, "write") = << >>
                              /\ Of(eff, n, "emit") = << >>
          /\ ((\E i \in 1..Len(out') : IsEmit(out'[i], "disconnect") /\ out'[i].nsp = n)
                /\ ~\E i \in 1..Len(out') : IsCall(out'[i], "disconnect") /\ out'[i].nsp = n)
             => sock[n].subs
          /\ (out' # << >> /\ IsCall(out'[1], "disconnect") /\ out'[1].nsp = n) =>
                (out'[1].t = "connected") = sock[n].connected
      ]_vars

C13_Witness ==
    /\ Len(out) = 4
    /\ IsCall(out[1], "disconnect") /\ out[1].t = "connected" /\ out[1].nsp = "/a"
    /\ out[2].k = "write" /\ out[2].t = "DISCONNECT" /\ out[2].nsp = "/a"
    /\ IsCall(out[3], "_close") /\ out[3].t = "open"
    /\ IsEmit(out[4], "disconnect") /\ out[4].t = "io client disconnect"
    /\ eng.st = "closing"

(* C14: a socket that is delivered a DISCONNECT packet of its namespace
   detaches, is disconnected, and emits one disconnect event of reason
   "io server disconnect"; a socket attaches only in a call of connect() on
   it, and a CONNECT packet is written for a socket only if it was attached
   or connect() was just called on it: once detached by the server it
   writes no CONNECT on any manager open until connect() is called. *)
C14_ServerDisconnectDetaches ==
    [][ \A n \in Nsps :
          LET called == \E i \in 1..Len(out') : IsCall(out'[i], "connect") /\ out'[i].nsp = n
          IN
          /\ ((\E i \in 1..Len(out') :
                  out'[i].k = "recv" /\ out'[i].t = "DISCONNECT" /\ out'[i].nsp = n)
                /\ sock[n].subs) =>
                /\ ~called => ~sock'[n].subs
                /\ ~sock'[n].connected /\ sock'[n].disconnected
                /\ Len(Of(Own(out'), n, "emit")) = 1
                /\ IsEmit(Of(Own(out'), n, "emit")[1], "disconnect")
                /\ Of(Own(out'), n, "emit")[1].t = "io server disconnect"
                /\ Of(Own(out'), n, "write") = << >>
          /\ (sock'[n].subs /\ ~sock[n].subs) => called
          /\ (\E i \in 1..Len(out') :
                 out'[i].k = "write" /\ out'[i].t = "CONNECT" /\ out'[i].nsp = n)
             => (sock[n].subs \/ called)
      ]_vars

C14_Witness ==
    /\ Len(out) = 2
    /\ out[1].k = "recv" /\ out[1].t = "DISCONNECT" /\ out[1].nsp = Root
    /\ IsEmit(out[2], "disconnect") /\ out[2].t = "io server disconnect" /\ out[2].nsp = Root
    /\ ~sock[Root].subs
    /\ sock["/a"].connected
    /\ mgr.readyState = "open"

(* The packet an emit on socket n produced in this step: written, or else
   pushed onto sendBuffer. *)
Produced(n) ==
    LET i == CHOOSE j \in EmitCalls(out', n) : TRUE
        ws == Of(out', n, "write")
    IN IF out'[i].c
       THEN out'[i + 1]
       ELSE IF sock'[n].sendBuffer # << >>
            THEN sock'[n].sendBuffer[Len(sock'[n].sendBuffer)]
            ELSE ws[Len(ws)]

(* C15: an emit with an ack callback takes the id ids, which is not pending,
   registers it and increments ids; an emit without one carries no id; no
   other step changes ids or registers a callback; every registered id is
   below ids.  So ids are handed out increasing, each once, across
   disconnects and reconnects. *)
C15_AckIdsUsedOnce ==
    [][ \A n \in Nsps :
          /\ sock'[n].ids >= sock[n].ids
          /\ sock'[n].acks \ sock[n].acks \subseteq {sock[n].ids}
          /\ \A a \in sock'[n].acks : a < sock'[n].ids
          /\ sock'[n].ids # sock[n].ids =>
                /\ EmitCalls(out', n) # {}
                /\ sock'[n].ids = sock[n].ids + 1
                /\ sock[n].ids \notin sock[n].acks
                /\ sock'[n].acks = sock[n].acks \cup {sock[n].ids}
                /\ Produced(n).id = sock[n].ids
          /\ (EmitCalls(out', n) # {} /\ sock'[n].ids = sock[n].ids) =>
                /\ Produced(n).id = NoId
                /\ sock'[n].acks \subseteq sock[n].acks
      ]_vars

C15_Witness ==
    /\ Len(out) = 2
    /\ IsCall(out[1], "emit")
    /\ out[2].k = "write" /\ out[2].id = 1
    /\ ghost.oldAcks[Root] = {0}
    /\ sock[Root].acks = {0, 1}
    /\ sock[Root].ids = 2

(* C16: an ACK or BINARY_ACK delivered to a socket invokes the callback
   pending under its id, once, and removes the entry, changing nothing else
   of the socket (but for what the callback itself does by calling the
   library); when no callback is pending under the id it invokes
   nothing and leaves the socket as it was (but for what a listener of the
   manager's "packet" does by calling the socket); no callback is invoked in
   any other way. *)
C16_AckInvokesOnce ==
    [][ \A n \in Nsps :
          /\ \A i \in 1..Len(out') :
                (out'[i].k = "recv" /\ out'[i].nsp = n /\ sock[n].subs
                   /\ out'[i].t \in {"ACK", "BINARY_ACK"}) =>
                   IF out'[i].id \in sock[n].acks
                   THEN /\ Len(Of(out', n, "ack")) = 1
                        /\ Of(out', n, "ack")[1].id = out'[i].id
                        /\ sock'[n].acks = sock[n].acks \ {out'[i].id}
                        /\ ~Reacts(out') =>
                              sock'[n] = [sock[n] EXCEPT !.acks = @ \ {out'[i].id}]
                   ELSE /\ Of(out', n, "ack") = << >>
                        /\ sock'[n].acks = sock[n].acks
                        /\ ~Calls(out', n) => sock'[n] = sock[n]
          /\ Of(out', n, "ack") # << >> =>
                /\ out'[1].k = "recv" /\ out'[1].nsp = n
                /\ out'[1].t \in {"ACK", "BINARY_ACK"}
                /\ out'[1].id \in sock[n].acks
      ]_vars

C16_Witness ==
    /\ Len(out) = 2
    /\ out[1].k = "recv" /\ out[1].t = "BINARY_ACK" /\ out[1].id = 0
    /\ out[2].k = "ack" /\ out[2].id = 0
    /\ sock[Root].connected
    /\ sock[Root].acks = {1}

(* C17: a packet delivered by the manager changes nothing of, and triggers
   no handler on, a socket of another namespace, unless it is an ERROR
   packet of namespace "/", which fires error on every attached socket; an
   ERROR packet of another namespace reaches the socket of that namespace
   alone.  A listener that calls the other socket is what changes it. *)
C17_OnlyOwnNamespace ==
    [][ (out' # << >> /\ out'[1].k = "recv") =>
          \A n \in Nsps :
             LET p == out'[1]
                 rootNamespaceError == p.t = "ERROR" /\ p.nsp = Root
                 own == Own(out')
             IN /\ (n # p.nsp /\ ~rootNamespaceError) =>
                      /\ ~Calls(out', n) => sock'[n] = sock[n]
                      /\ \A i \in 1..Len(own) : own[i].nsp # n
                /\ (n # p.nsp /\ rootNamespaceError /\ sock[n].subs) =>
                      /\ Len(Of(own, n, "emit")) = 1
                      /\ IsEmit(Of(own, n, "emit")[1], "error")
                      /\ ~Calls(out', n) => sock'[n] = sock[n]
      ]_vars

C17_Witness ==
    /\ Len(out) = 1
    /\ out[1].k = "recv" /\ out[1].t = "ACK" /\ out[1].nsp = Root
    /\ sock[Root].subs
    /\ sock["/a"].subs /\ sock["/a"].connected
    /\ out[1].id \in sock["/a"].acks

(* The readyState an entry e of the effects of a step leaves, rs being the
   one it found: open() that creates an engine assigns opening, onopen
   assigns open before it emits open, errorSub and onclose assign closed
   before they emit connect_error and close, _close assigns closed. *)
ReadyStateAfter(rs, e) ==
    CASE IsCall(e, "open") -> "opening"
      [] IsMgr(e, "open") -> "open"
      [] IsMgr(e, "connect_error") \/ IsMgr(e, "close") \/ IsCall(e, "_close") -> "closed"
      [] OTHER -> rs

(* The connect_error the timeout timer emits itself, after the one of
   errorSub: it assigns nothing. *)
SecondTimeout(o, i) ==
    /\ IsMgr(o[i], "connect_error") /\ o[i].t = "timeout"
    /\ \E j \in 1..(i - 1) : IsMgr(o[j], "connect_error") /\ o[j].t = "timeout"

(* The readyState after each of the effects o of a step that began in rs. *)
ReadyStates(rs, o) ==
    LET F[i \in 0..Len(o)] ==
            IF i = 0 THEN rs
            ELSE IF SecondTimeout(o, i) THEN F[i - 1]
            ELSE ReadyStateAfter(F[i - 1], o[i])
    IN F

(* C18: readyState is closed, opening or open; every assignment made in a
   step leaves it as it was or takes it from closed to opening, from
   opening to open or closed, or from open to closed; an open() that finds
   it opening or open creates no engine and leaves it so, and when that is
   all the step does nothing changes. *)
C18_ReadyStateTransitions ==
    [][ LET rs == ReadyStates(mgr.readyState, out')
        IN /\ mgr'.readyState \in {"closed", "opening", "open"}
           /\ rs[Len(out')] = mgr'.readyState
           /\ \A i \in 1..Len(out') :
                 \/ rs[i] = rs[i - 1]
                 \/ <<rs[i - 1], rs[i]>> \in
                       { <<"closed", "opening">>, <<"opening", "open">>,
                         <<"opening", "closed">>, <<"open", "closed">> }
           /\ \A i \in 1..Len(out') :
                 /\ (IsCall(out'[i], "_close") \/ IsCall(out'[i], "setTimeout")) =>
                       out'[i].t = rs[i - 1]
                 /\ IsCall(out'[i], "open") => rs[i - 1] = "closed"
                 /\ IsCall(out'[i], "open_ignored") =>
                       /\ out'[i].t \in {"opening", "open"}
                       /\ out'[i].t = rs[i - 1]
                       /\ Len(out') = 1 => (mgr' = mgr /\ sock' = sock /\ eng' = eng)
      ]_vars

C18_Witness ==
    /\ out = << Obs("call", "", "opening", "open_ignored", NoId, FALSE, NoSid) >>
    /\ mgr.readyState = "opening"
    /\ TimerPending

(* C19: when the attempt of an open(cb) with a callback of the user fails,
   cb is called with the error, once, and no reconnect delay timer is
   scheduled or left pending; when the attempt of an open() without
   callback fails, a timer is scheduled exactly when reconnection is
   enabled, no loop is running, the backoff counter is 0 and no listener of
   connect_error closed the manager. *)
C19_CallbackInsteadOfReconnect ==
    [][ Has(out', "mgr", "connect_error") =>
          LET fns == {x.fn : x \in {y \in mgr.subs : y.k = "error"}}
          IN /\ fns = {"user"} =>
                   /\ Count(out', "cb", "err") = 1
                   /\ ~Has(out', "call", "setTimeout")
                   /\ ~Has(out', "mgr", "reconnect_failed")
                   /\ ~\E x \in mgr'.subs : x.k = "rtimer"
             /\ fns = {"none"} =>
                   /\ ~Has(out', "cb", "err")
                   /\ Has(out', "call", "setTimeout")
                      <=> (mgr.reconnection /\ ~mgr.reconnecting /\ mgr.attempts = 0
                              /\ ~Has(out', "call", "_close"))
             /\ Has(out', "cb", "err") => fns = {"user"}
      ]_vars

C19_Witness ==
    /\ Len(out) = 2
    /\ IsMgr(out[1], "connect_error") /\ out[1].t = "error"
    /\ out[2].k = "cb" /\ out[2].ev = "err"
    /\ mgr.reconnection /\ ~mgr.reconnecting /\ mgr.attempts = 0
    /\ mgr.readyState = "closed"
    /\ mgr.subs = {}

(* C20: when reconnect_failed is emitted the manager is closed, with the
   backoff counter at 0, and when the handler returns it is not
   reconnecting, and still closed with the counter at 0 unless a listener
   called open() since; an open() called after it, by a listener of
   reconnect_failed or later, creates an engine and leaves the manager opening,
   listening for the engine to open unless the connect timeout is 0. *)
C20_ReconnectFailedNotTerminal ==
    [][ /\ \A i \in 1..Len(out') :
              IsMgr(out'[i], "reconnect_failed") =>
                 /\ out'[i].id = 0
                 /\ ReadyStates(mgr.readyState, out')[i] = "closed"
                 /\ ~mgr'.reconnecting
                 /\ (i < Len(out') /\ IsCall(out'[i + 1], "listener")
                       /\ out'[i + 1].t = "open") => IsCall(out'[i + 2], "open")
                 /\ IF \E j \in (i + 1)..Len(out') : IsCall(out'[j], "open")
                    THEN /\ mgr'.readyState = "opening"
                         /\ eng'.st = "opening"
                    ELSE /\ mgr'.readyState = "closed"
                         /\ mgr'.attempts = 0
        /\ (ghost.failed /\ mgr.readyState = "closed" /\ Has(out', "call", "open")) =>
              /\ mgr'.readyState = "opening"
              /\ eng'.st = "opening"
              /\ mgr.timeout # "zero" => \E x \in mgr'.subs : x.k = "open" /\ x.e = "cur"
      ]_vars

(* C21: no step removes a namespace from nsps; a namespace enters nsps only
   in a call of socket() for it; socket() for a namespace that is in nsps
   changes nothing of the manager, of the sockets or of the engine: the
   Socket of the namespace is the one created first, whatever happened to
   it since. *)
C21_NspsOnlyGrows ==
    [][ \A n \in Nsps :
          LET called == \E i \in 1..Len(out') : IsCall(out'[i], "socket") /\ out'[i].nsp = n
          IN /\ n \in mgr.nsps => n \in mgr'.nsps
             /\ (n \in mgr'.nsps /\ n \notin mgr.nsps) => called
             /\ (called /\ n \in mgr.nsps) =>
                   /\ Len(out') = 1
                   /\ mgr' = mgr /\ sock' = sock /\ eng' = eng
      ]_vars

C21_Witness ==
    /\ out = << Obs("call", Root, "", "socket", NoId, FALSE, NoSid) >>
    /\ ghost.closed
    /\ mgr.readyState = "closed"
    /\ ~sock[Root].subs
    /\ mgr.nsps = Nsps
    /\ sock["/a"].subs

(* An open attempt started by the reconnect loop is in progress. *)
LoopAttempt ==
    /\ mgr.readyState = "opening"
    /\ \E x \in mgr.subs : x.k \in {"open", "error"} /\ x.fn = "reconnect"

(* C22: reconnecting is true only while a reconnect delay timer is pending
   or an open attempt started by the reconnect loop is in progress. *)
C22_ReconnectingHasCause ==
    mgr.reconnecting => (TimerPending \/ LoopAttempt)

(* C23: when the manager emits close, every attached socket stays attached
   (unless a listener detaches it), is disconnected and emits one
   disconnect event with the reason of the close; a socket detaches only in
   a call of disconnect() on it or when delivered a DISCONNECT packet of
   its namespace; when the manager emits open, every attached socket whose
   auth is a value writes one CONNECT packet carrying auth, and nothing
   else, and every attached socket whose auth is a function calls it, once,
   and writes one CONNECT packet each time the function calls its
   callback, then or later. *)
C23_AttachedSocketReconnects ==
    [][ \A n \in Nsps :
          LET own == Own(out')
          IN
          /\ \A i \in 1..Len(out') :
                (IsMgr(out'[i], "close") /\ sock[n].subs) =>
                   /\ ~Calls(out', n) => sock'[n].subs
                   /\ ~sock'[n].connected /\ sock'[n].disconnected
                   /\ sock'[n].id = NoSid
                   /\ Len(Of(own, n, "emit")) = 1
                   /\ IsEmit(Of(own, n, "emit")[1], "disconnect")
                   /\ Of(own, n, "emit")[1].t = out'[i].t
          /\ (sock[n].subs /\ ~sock'[n].subs) =>
                \E i \in 1..Len(out') :
                   /\ out'[i].nsp = n
                   /\ \/ IsCall(out'[i], "disconnect")
                      \/ out'[i].k = "recv" /\ out'[i].t = "DISCONNECT"
          /\ (Has(out', "mgr", "open") /\ sock[n].subs) =>
                /\ Len(Of(own, n, "write")) = SyncCalls(sock[n].auth)
                                              + (IF sock[n].auth = "value" THEN 1 ELSE 0)
                /\ \A i \in 1..Len(Of(own, n, "write")) :
                      /\ Of(own, n, "write")[i].t = "CONNECT"
                      /\ Of(own, n, "write")[i].ev = "auth"
                /\ IF sock[n].auth = "value"
                   THEN Of(own, n, "call") = << >>
                   ELSE /\ Len(Of(own, n, "call")) = 1
                        /\ IsCall(Of(own, n, "call")[1], "auth")
                        /\ sock'[n].authCb
          /\ (out' # << >> /\ IsCall(out'[1], "authcb") /\ out'[1].nsp = n) =>
                /\ sock[n].authCb
                /\ Len(out') = 2
                /\ out'[2].k = "write" /\ out'[2].nsp = n
                /\ out'[2].t = "CONNECT" /\ out'[2].ev = "auth"
                /\ sock' = sock /\ mgr' = mgr
      ]_vars

C23_Witness ==
    /\ Len(out) = 6
    /\ IsMgr(out[1], "open")
    /\ IsCall(out[2], "auth") /\ out[2].nsp = Root
    /\ out[3].k = "write" /\ out[3].t = "CONNECT" /\ out[3].nsp = Root /\ out[3].ev = "auth"
    /\ out[4].k = "write" /\ out[4].t = "CONNECT" /\ out[4].nsp = Root
    /\ out[5].k = "write" /\ out[5].t = "CONNECT" /\ out[5].nsp = "/a"
    /\ IsMgr(out[6], "reconnect")
    /\ sock[Root].auth = "fn2"
    /\ ~sock[Root].connected /\ sock[Root].subs

(* C24: the step in which the connect-timeout timer fires emits
   connect_error and, unless a listener of it calls open(), leaves the
   engine closed, readyState closed and no subscription to the engine's
   open event nor timeout timer; the manager emits open only while it is
   opening and subscribed to the engine's open event; a subscription to the
   engine's open event is made only by an open() that creates an engine
   with a timeout that is not 0, so an attempt made with timeout 0 never
   opens the manager. *)
C24_TimedOutAttemptAbandoned ==
    [][ /\ ((\E i \in 1..Len(out') : IsMgr(out'[i], "connect_error") /\ out'[i].t = "timeout")
              /\ ~Has(out', "call", "open")) =>
              /\ eng'.st = "closed"
              /\ mgr'.readyState = "closed"
              /\ \A x \in mgr'.subs : x.k \notin {"open", "timeout"}
        /\ \A i \in 1..Len(out') :
              (IsMgr(out'[i], "connect_error") /\ out'[i].t = "timeout"
                 /\ ~SecondTimeout(out', i)) =>
                 /\ i = 1
                 /\ \E x \in mgr.subs : x.k = "timeout"
                 /\ \E j \in 2..Len(out') : SecondTimeout(out', j)
        /\ Has(out', "mgr", "open") =>
              /\ mgr.readyState = "opening"
              /\ \E x \in mgr.subs : x.k = "open" /\ x.e = "cur"
        /\ (\E x \in mgr'.subs : x.k = "open") =>
              \/ \E x \in mgr.subs : x.k = "open"
              \/ Has(out', "call", "open") /\ mgr.timeout # "zero"
        /\ (Has(out', "call", "open") /\ mgr.timeout = "zero"
              /\ IsCall(out'[Len(out')], "open")) =>
              /\ \A x \in mgr'.subs : x.k # "open"
              /\ \E x \in mgr'.subs : x.k = "timeout"
      ]_vars

C24_Witness ==
    /\ Len(out) = 3
    /\ IsMgr(out[1], "connect_error") /\ out[1].t = "timeout"
    /\ IsCall(out[2], "setTimeout")
    /\ IsMgr(out[3], "connect_error") /\ out[3].t = "timeout"
    /\ mgr.timeout = "positive"
    /\ mgr.readyState = "closed"
    /\ eng.st = "closed"

(* The ack functions of socket n whose sent flag this step sets. *)
Flipped(n) ==
    {i \in 1..Len(sock[n].ackFns) : ~sock[n].ackFns[i].sent /\ sock'[n].ackFns[i].sent}

AckWrites(o, n) ==
    LET IsAck(x) == x.k = "write" /\ x.nsp = n /\ x.t \in {"ACK", "BINARY_ACK"}
    IN SelectSeq(o, IsAck)

(* C25: the functions made by Socket.ack are never lost, keep their id, and
   a sent flag once set stays set; a step writes an ACK or BINARY_ACK packet
   only by calling one function whose flag was not set, sets that flag and
   writes one packet with the id of the function; a call of a function
   whose flag is set writes nothing and changes nothing.  So each function
   writes at most one packet. *)
C25_AckFunctionIdempotent ==
    [][ \A n \in Nsps :
          /\ Len(sock'[n].ackFns) >= Len(sock[n].ackFns)
          /\ \A i \in 1..Len(sock[n].ackFns) :
                /\ sock'[n].ackFns[i].id = sock[n].ackFns[i].id
                /\ sock[n].ackFns[i].sent => sock'[n].ackFns[i].sent
          /\ Len(AckWrites(out', n)) = Cardinality(Flipped(n))
          /\ Cardinality(Flipped(n)) <= 1
          /\ \A i \in Flipped(n) :
                /\ AckWrites(out', n)[1].id = sock[n].ackFns[i].id
                /\ IsCall(out'[1], "ackfn") /\ out'[1].nsp = n
          /\ ((\E j \in 1..Len(out') : IsCall(out'[j], "ackfn") /\ out'[j].nsp = n)
                /\ Flipped(n) = {}) =>
                /\ Len(out') = 1
                /\ sock' = sock /\ mgr' = mgr /\ eng' = eng
      ]_vars

C25_Witness ==
    /\ Len(out) = 1
    /\ IsCall(out[1], "ackfn") /\ out[1].id = 0
    /\ Len(sock[Root].ackFns) = 2
    /\ sock[Root].ackFns[1].sent
    /\ ~sock[Root].ackFns[2].sent
    /\ sock[Root].connected

(* C26: a socket that is connected is attached and its manager is open. *)
C26_ConnectedOnOpenManager ==
    \A n \in Nsps :
       sock[n].connected => (sock[n].subs /\ mgr.readyState = "open")

(* C27: a close event that reaches the manager while an attempt is opening
   comes from an engine it has replaced; it leaves readyState opening, keeps
   the subscriptions and the timeout timer of the attempt, and schedules no
   reconnect delay timer. *)
C27_ReplacedEngineIsIgnored ==
    [][ (Has(out', "mgr", "close") /\ mgr.readyState = "opening") =>
          /\ mgr'.readyState = "opening"
          /\ {x \in mgr.subs : x.e = "cur"} \subseteq mgr'.subs
          /\ ~Has(out', "call", "setTimeout")
          /\ mgr'.reconnecting = mgr.reconnecting
      ]_vars

(* C28: every close of the engine that the manager did not ask for is
   followed by a reconnect event, a reconnect_failed event or an explicit
   close of the manager. *)
C28_CloseLeadsToReconnect ==
    (\E i \in 1..Len(out) : IsMgr(out[i], "close") /\ out[i].t # "forced close")
    ~> (Has(out, "mgr", "reconnect") \/ Has(out, "mgr", "reconnect_failed") \/ ghost.closed)

====
